---- MODULE Spec2Model ----
(***************************************************************************)
(* Model of the function executor (executeFunction and the variable        *)
(* resolver it calls).  Code texts are TLA+ strings handled character by   *)
(* character, JavaScript values are tagged records.                        *)
(***************************************************************************)
EXTENDS Integers, Sequences, FiniteSets, TLC

(***************************************************************************)
(* Characters and strings                                                  *)
(***************************************************************************)
Ch(s, i) == SubSeq(s, i, i)

LowerChars == "abcdefghijklmnopqrstuvwxyz"
UpperChars == "ABCDEFGHIJKLMNOPQRSTUVWXYZ"
DigitChars == "0123456789"

Lower == {Ch(LowerChars, i) : i \in 1..Len(LowerChars)}
Upper == {Ch(UpperChars, i) : i \in 1..Len(UpperChars)}
Digit == {Ch(DigitChars, i) : i \in 1..Len(DigitChars)}

\* [a-zA-Z0-9_]
WordChar == Lower \cup Upper \cup Digit \cup {"_"}
\* [a-zA-Z_]
TagFirstChar == Lower \cup Upper \cup {"_"}
\* [a-zA-Z0-9_.]
TagRunChar == WordChar \cup {"."}
\* \s
Space == {" ", "\n", "\t", "\r"}

\* s.startsWith(pat, i - 1), i counted from 1
StartsAt(s, i, pat) ==
  /\ i >= 1
  /\ i + Len(pat) - 1 <= Len(s)
  /\ SubSeq(s, i, i + Len(pat) - 1) = pat

\* index of the first character at or after i that is (not) in the set cs, 0 if none
RECURSIVE FirstIn(_, _, _)
FirstIn(s, i, cs) ==
  IF i > Len(s) THEN 0
  ELSE IF Ch(s, i) \in cs THEN i
  ELSE FirstIn(s, i + 1, cs)

RECURSIVE FirstNotIn(_, _, _)
FirstNotIn(s, i, cs) ==
  IF i > Len(s) THEN 0
  ELSE IF Ch(s, i) \notin cs THEN i
  ELSE FirstNotIn(s, i + 1, cs)

RECURSIVE LastNotIn(_, _, _)
LastNotIn(s, i, cs) ==
  IF i < 1 THEN 0
  ELSE IF Ch(s, i) \notin cs THEN i
  ELSE LastNotIn(s, i - 1, cs)

\* String.prototype.trim
Trim(s) ==
  LET a == FirstNotIn(s, 1, Space)
      b == LastNotIn(s, Len(s), Space)
  IN IF a = 0 THEN "" ELSE SubSeq(s, a, b)

\* s.replace(/\s+/g, '')
RECURSIVE StripSpaces(_)
StripSpaces(s) ==
  IF s = "" THEN ""
  ELSE IF Ch(s, 1) \in Space THEN StripSpaces(SubSeq(s, 2, Len(s)))
  ELSE Ch(s, 1) \o StripSpaces(SubSeq(s, 2, Len(s)))

\* s.replace(/[^a-zA-Z0-9_]/g, '_')
RECURSIVE Sanitize(_)
Sanitize(s) ==
  IF s = "" THEN ""
  ELSE (IF Ch(s, 1) \in WordChar THEN Ch(s, 1) ELSE "_")
         \o Sanitize(SubSeq(s, 2, Len(s)))

LowerOf(c) ==
  IF c \in Upper
  THEN Ch(LowerChars, CHOOSE i \in 1..Len(UpperChars) : Ch(UpperChars, i) = c)
  ELSE c

\* String.prototype.toLowerCase
RECURSIVE ToLowerCase(_)
ToLowerCase(s) ==
  IF s = "" THEN ""
  ELSE LowerOf(Ch(s, 1)) \o ToLowerCase(SubSeq(s, 2, Len(s)))

\* s.includes(pat)
RECURSIVE IncludesFrom(_, _, _)
IncludesFrom(s, i, pat) ==
  IF i + Len(pat) - 1 > Len(s) THEN FALSE
  ELSE IF StartsAt(s, i, pat) THEN TRUE
  ELSE IncludesFrom(s, i + 1, pat)

Includes(s, pat) == IncludesFrom(s, 1, pat)

\* s.split('.')
RECURSIVE SplitDot(_)
SplitDot(s) ==
  LET d == FirstIn(s, 1, {"."})
  IN IF d = 0 THEN <<s>>
     ELSE <<SubSeq(s, 1, d - 1)>> \o SplitDot(SubSeq(s, d + 1, Len(s)))

\* parts.join('.')
RECURSIVE JoinDot(_)
JoinDot(parts) ==
  IF parts = <<>> THEN ""
  ELSE IF Len(parts) = 1 THEN parts[1]
  ELSE parts[1] \o "." \o JoinDot(Tail(parts))

\* s.replace(new RegExp(escapeRegExp(pat), 'g'), rep): every non-overlapping
\* literal occurrence of pat, left to right (rep holds no $ pattern)
RECURSIVE ReplaceAllFrom(_, _, _, _)
ReplaceAllFrom(s, i, pat, rep) ==
  IF i > Len(s) THEN ""
  ELSE IF StartsAt(s, i, pat)
       THEN rep \o ReplaceAllFrom(s, i + Len(pat), pat, rep)
       ELSE Ch(s, i) \o ReplaceAllFrom(s, i + 1, pat, rep)

escapeRegExpReplace(s, pat, rep) ==
  IF pat = "" THEN s ELSE ReplaceAllFrom(s, 1, pat, rep)

(***************************************************************************)
(* JavaScript values                                                       *)
(***************************************************************************)
Undefined == [t |-> "undefined"]
Null == [t |-> "null"]
NaN == [t |-> "NaN"]
Str(s) == [t |-> "string", s |-> s]
Num(n) == [t |-> "number", n |-> n]
Bool(b) == [t |-> "boolean", b |-> b]
\* an object with own properties f (a function from keys to values)
Obj(f) == [t |-> "object", o |-> f]
EmptyObj == Obj(<<>>)

\* ToBoolean
Truthy(v) ==
  CASE v.t = "undefined" -> FALSE
    [] v.t = "null" -> FALSE
    [] v.t = "NaN" -> FALSE
    [] v.t = "string" -> v.s # ""
    [] v.t = "number" -> v.n # 0
    [] v.t = "boolean" -> v.b
    [] OTHER -> TRUE

\* a || b
Or(a, b) == IF Truthy(a) THEN a ELSE b

\* obj[key] on an own property, undefined when absent
Get(obj, key) ==
  IF obj.t = "object" /\ key \in DOMAIN obj.o THEN obj.o[key] ELSE Undefined

\* the reduce step of getNestedValue
NestedStep(current, key) ==
  IF Truthy(current) /\ current.t = "object" THEN Get(current, key) ELSE Undefined

RECURSIVE NestedReduce(_, _)
NestedReduce(current, keys) ==
  IF keys = <<>> THEN current
  ELSE NestedReduce(NestedStep(current, Head(keys)), Tail(keys))

getNestedValue(obj, path) ==
  IF ~Truthy(obj) \/ path = "" THEN Undefined
  ELSE NestedReduce(obj, SplitDot(path))

(***************************************************************************)
(* Conversions used by the type coercion of workflow variables             *)
(***************************************************************************)
DigitValue(c) == (CHOOSE i \in 1..Len(DigitChars) : Ch(DigitChars, i) = c) - 1

RECURSIVE DigitsValue(_, _)
DigitsValue(s, acc) ==
  IF s = "" THEN acc
  ELSE DigitsValue(SubSeq(s, 2, Len(s)), acc * 10 + DigitValue(Ch(s, 1)))

IsDigits(s) == s # "" /\ \A i \in 1..Len(s) : Ch(s, i) \in Digit

\* Number(v), decimal integer literals only
ToNumber(v) ==
  CASE v.t = "number" -> v
    [] v.t = "boolean" -> Num(IF v.b THEN 1 ELSE 0)
    [] v.t = "null" -> Num(0)
    [] v.t = "string" ->
         LET s == Trim(v.s)
         IN IF s = "" THEN Num(0)
            ELSE IF IsDigits(s) THEN Num(DigitsValue(s, 0))
            ELSE NaN
    [] OTHER -> NaN

\* JSON.parse(s) for the literals true, false, null, decimal integers, {} and
\* strings without escapes; any other text throws (ok = FALSE)
JSONParse(str) ==
  LET s == Trim(str)
      n == Len(s)
  IN CASE s = "true" -> [ok |-> TRUE, v |-> Bool(TRUE)]
       [] s = "false" -> [ok |-> TRUE, v |-> Bool(FALSE)]
       [] s = "null" -> [ok |-> TRUE, v |-> Null]
       [] s = "{}" -> [ok |-> TRUE, v |-> EmptyObj]
       [] IsDigits(s) -> [ok |-> TRUE, v |-> Num(DigitsValue(s, 0))]
       [] /\ n >= 2 /\ Ch(s, 1) = "\"" /\ Ch(s, n) = "\""
          /\ FirstIn(SubSeq(s, 2, n - 1), 1, {"\"", "\\", "\n"}) = 0
            -> [ok |-> TRUE, v |-> Str(SubSeq(s, 2, n - 1))]
       [] OTHER -> [ok |-> FALSE, v |-> Undefined]

\* lines 83-106: the value bound for a matched workflow variable
CoerceVariable(variable) ==
  LET value == variable.value
      type == IF variable.type = "string" THEN "plain" ELSE variable.type
  IN IF value.t \in {"undefined", "null"} THEN value
     ELSE CASE type = "plain" /\ value.t = "string" -> value
            [] type = "number" -> ToNumber(value)
            [] type = "boolean" ->
                 Bool(value = Str("true") \/ value = Bool(TRUE))
            [] type = "json" ->
                 IF value.t = "string"
                 THEN (IF JSONParse(value.s).ok THEN JSONParse(value.s).v ELSE value)
                 ELSE value
            [] OTHER -> value

(***************************************************************************)
(* The variable resolver                                                   *)
(***************************************************************************)
\* an assignment that keeps the value of a name that is already bound
SetBindingKeepFirst(contextVariables, name, value) ==
  [k \in (DOMAIN contextVariables) \cup {name} |->
     IF k \in DOMAIN contextVariables THEN contextVariables[k] ELSE value]

\* contextVariables[name] = value
SetBinding(contextVariables, name, value) ==
  [k \in (DOMAIN contextVariables) \cup {name} |->
     IF k = name THEN value ELSE contextVariables[k]]

\* end of the match of /<variable\.([^>]+)>/ that starts at i, 0 if none
VariableMatchEnd(s, i) ==
  IF StartsAt(s, i, "<variable.")
  THEN LET j == FirstIn(s, i + 10, {">"})
       IN IF j > i + 10 THEN j ELSE 0
  ELSE 0

\* end of the match of /\{\{([^}]+)\}\}/ that starts at i, 0 if none
EnvMatchEnd(s, i) ==
  IF StartsAt(s, i, "{{")
  THEN LET k == FirstIn(s, i + 2, {"}"})
       IN IF k > i + 2 /\ StartsAt(s, k, "}}") THEN k + 1 ELSE 0
  ELSE 0

\* end of the match of /<([a-zA-Z_][a-zA-Z0-9_.]*[a-zA-Z0-9_])>/ that starts
\* at i, 0 if none
TagMatchEnd(s, i) ==
  IF StartsAt(s, i, "<")
  THEN LET j == FirstNotIn(s, i + 1, TagRunChar)
       IN IF /\ j >= i + 3
             /\ Ch(s, j) = ">"
             /\ Ch(s, i + 1) \in TagFirstChar
             /\ Ch(s, j - 1) \in WordChar
          THEN j ELSE 0
  ELSE 0

\* code.match(re) || [] with the g flag: the matched texts, left to right
RECURSIVE variableMatches(_, _)
variableMatches(s, i) ==
  IF i > Len(s) THEN <<>>
  ELSE LET e == VariableMatchEnd(s, i)
       IN IF e # 0 THEN <<SubSeq(s, i, e)>> \o variableMatches(s, e + 1)
          ELSE variableMatches(s, i + 1)

RECURSIVE envVarMatches(_, _)
envVarMatches(s, i) ==
  IF i > Len(s) THEN <<>>
  ELSE LET e == EnvMatchEnd(s, i)
       IN IF e # 0 THEN <<SubSeq(s, i, e)>> \o envVarMatches(s, e + 1)
          ELSE envVarMatches(s, i + 1)

RECURSIVE tagMatches(_, _)
tagMatches(s, i) ==
  IF i > Len(s) THEN <<>>
  ELSE LET e == TagMatchEnd(s, i)
       IN IF e # 0 THEN <<SubSeq(s, i, e)>> \o tagMatches(s, e + 1)
          ELSE tagMatches(s, i + 1)

\* Object.entries(workflowVariables).find(...): index of the first entry whose
\* name, spaces removed, equals variableName; 0 if none
RECURSIVE FindVariable(_, _, _)
FindVariable(workflowVariables, variableName, i) ==
  IF i > Len(workflowVariables) THEN 0
  ELSE IF StripSpaces(workflowVariables[i].name) = variableName THEN i
  ELSE FindVariable(workflowVariables, variableName, i + 1)

\* line 75: match.slice('<variable.'.length, -1).trim()
VariableNameOf(match) == Trim(SubSeq(match, 11, Len(match) - 1))
\* line 132: match.slice(2, -2).trim()
EnvNameOf(match) == Trim(SubSeq(match, 3, Len(match) - 2))
\* line 158: match.slice(1, -1).trim()
TagNameOf(match) == Trim(SubSeq(match, 2, Len(match) - 1))

\* line 108
workflowSafeVarName(variableName) == "__variable_" \o Sanitize(variableName)

\* the prefix of the workflow variables used for template references
envSafeVarNameAsVariable(varName) == "__variable_" \o Sanitize(varName)

\* line 135
envSafeVarName(varName) == "__var_" \o Sanitize(varName)

\* line 174
tagSafeVarName(tagName) == "__tag_" \o Sanitize(tagName)

\* a reference of no declared variable is left in the code
WorkflowVariableStepKeepsUnmatched(st, match, workflowVariables) ==
  LET variableName == VariableNameOf(match)
      found == FindVariable(workflowVariables, variableName, 1)
      safeVarName == workflowSafeVarName(variableName)
  IN IF found # 0
     THEN [resolvedCode |-> escapeRegExpReplace(st.resolvedCode, match, safeVarName),
           contextVariables |->
             SetBinding(st.contextVariables, safeVarName,
                        CoerceVariable(workflowVariables[found]))]
     ELSE st

\* one iteration of the loop of resolveWorkflowVariables
WorkflowVariableStep(st, match, workflowVariables) ==
  LET variableName == VariableNameOf(match)
      found == FindVariable(workflowVariables, variableName, 1)
      safeVarName == workflowSafeVarName(variableName)
  IN IF found # 0
     THEN [resolvedCode |-> escapeRegExpReplace(st.resolvedCode, match, safeVarName),
           contextVariables |->
             SetBinding(st.contextVariables, safeVarName,
                        CoerceVariable(workflowVariables[found]))]
     ELSE [resolvedCode |-> escapeRegExpReplace(st.resolvedCode, match, ""),
           contextVariables |-> st.contextVariables]

RECURSIVE WorkflowVariableLoop(_, _, _)
WorkflowVariableLoop(st, matches, workflowVariables) ==
  IF matches = <<>> THEN st
  ELSE WorkflowVariableLoop(WorkflowVariableStep(st, Head(matches), workflowVariables),
                            Tail(matches), workflowVariables)

resolveWorkflowVariables(st, workflowVariables) ==
  WorkflowVariableLoop(st, variableMatches(st.resolvedCode, 1), workflowVariables)

\* the binding named by the sanitized name alone
EnvironmentVariableStepNoPrefix(st, match, params, envVars) ==
  LET varName == Trim(SubSeq(match, 3, Len(match) - 2))
      varValue == Or(Or(Get(envVars, varName), Get(params, varName)), Str(""))
      safeVarName == Sanitize(varName)
  IN [resolvedCode |-> escapeRegExpReplace(st.resolvedCode, match, safeVarName),
      contextVariables |-> SetBinding(st.contextVariables, safeVarName, varValue)]

\* one iteration of the loop of resolveEnvironmentVariables
EnvironmentVariableStep(st, match, params, envVars) ==
  LET varName == EnvNameOf(match)
      varValue == Or(Or(Get(envVars, varName), Get(params, varName)), Str(""))
      safeVarName == envSafeVarName(varName)
  IN [resolvedCode |-> escapeRegExpReplace(st.resolvedCode, match, safeVarName),
      contextVariables |-> SetBinding(st.contextVariables, safeVarName, varValue)]

RECURSIVE EnvironmentVariableLoop(_, _, _, _)
EnvironmentVariableLoop(st, matches, params, envVars) ==
  IF matches = <<>> THEN st
  ELSE EnvironmentVariableLoop(EnvironmentVariableStep(st, Head(matches), params, envVars),
                               Tail(matches), params, envVars)

resolveEnvironmentVariables(st, params, envVars) ==
  EnvironmentVariableLoop(st, envVarMatches(st.resolvedCode, 1), params, envVars)

\* the block name looked up as written
TagValueNameAsWritten(tagName, params, blockData, blockNameMapping) ==
  LET direct == Or(Or(getNestedValue(params, tagName),
                      getNestedValue(blockData, tagName)), Str(""))
      parts == SplitDot(tagName)
      blockId == Get(blockNameMapping, parts[1])
  IN IF ~Truthy(direct) /\ Includes(tagName, ".")
     THEN IF Truthy(blockId)
          THEN getNestedValue(IF blockId.t = "string" THEN Get(blockData, blockId.s)
                              ELSE Undefined,
                              JoinDot(Tail(parts)))
          ELSE direct
     ELSE direct

\* lines 160-171: the value looked up for a tag
TagValue(tagName, params, blockData, blockNameMapping) ==
  LET direct == Or(Or(getNestedValue(params, tagName),
                      getNestedValue(blockData, tagName)), Str(""))
      parts == SplitDot(tagName)
      blockId == Get(blockNameMapping, ToLowerCase(parts[1]))
  IN IF ~Truthy(direct) /\ Includes(tagName, ".")
     THEN IF Truthy(blockId)
          THEN getNestedValue(IF blockId.t = "string" THEN Get(blockData, blockId.s)
                              ELSE Undefined,
                              JoinDot(Tail(parts)))
          ELSE direct
     ELSE direct

\* one iteration of the loop of resolveTagVariables
TagVariableStep(st, match, params, blockData, blockNameMapping) ==
  LET tagName == TagNameOf(match)
      tagValue == TagValue(tagName, params, blockData, blockNameMapping)
      safeVarName == tagSafeVarName(tagName)
  IN IF tagValue # Undefined /\ tagValue # Str("")
     THEN [resolvedCode |-> escapeRegExpReplace(st.resolvedCode, match, safeVarName),
           contextVariables |-> SetBinding(st.contextVariables, safeVarName, tagValue)]
     ELSE st

RECURSIVE TagVariableLoop(_, _, _, _, _)
TagVariableLoop(st, matches, params, blockData, blockNameMapping) ==
  IF matches = <<>> THEN st
  ELSE TagVariableLoop(TagVariableStep(st, Head(matches), params, blockData, blockNameMapping),
                       Tail(matches), params, blockData, blockNameMapping)

resolveTagVariables(st, params, blockData, blockNameMapping) ==
  TagVariableLoop(st, tagMatches(st.resolvedCode, 1), params, blockData, blockNameMapping)

resolveCodeVariables(code, params, envVars, blockData, blockNameMapping, workflowVariables) ==
  LET st0 == [resolvedCode |-> code, contextVariables |-> <<>>]
      st1 == resolveWorkflowVariables(st0, workflowVariables)
      st2 == resolveEnvironmentVariables(st1, params, envVars)
  IN resolveTagVariables(st2, params, blockData, blockNameMapping)

(***************************************************************************)
(* The console shim and the result envelope                                *)
(***************************************************************************)
\* an Error object: message is an own, non-enumerable property
ErrorVal(name, message) == [t |-> "error", name |-> name, message |-> message]
\* an object that refers to itself
Circular == [t |-> "circular"]

RECURSIVE NatToString(_)
NatToString(n) ==
  IF n < 10 THEN Ch(DigitChars, n + 1)
  ELSE NatToString(n \div 10) \o Ch(DigitChars, (n % 10) + 1)

NumToString(n) == IF n < 0 THEN "-" \o NatToString(0 - n) ELSE NatToString(n)

RECURSIVE Spaces(_)
Spaces(n) == IF n <= 0 THEN "" ELSE " " \o Spaces(n - 1)

\* JSON.stringify(v, null, 2) at nesting depth d; ok = FALSE when it throws
\* (a circular structure).  Strings are written without escapes and the
\* properties of an object in an arbitrary fixed order.
RECURSIVE JSONStringify(_, _)
RECURSIVE JSONProps(_, _, _)
JSONProps(f, keys, d) ==
  IF keys = {} THEN [ok |-> TRUE, s |-> ""]
  ELSE LET k == CHOOSE x \in keys : TRUE
           v == JSONStringify(f[k], d)
           rest == JSONProps(f, keys \ {k}, d)
       IN IF ~v.ok \/ ~rest.ok THEN [ok |-> FALSE, s |-> ""]
          ELSE [ok |-> TRUE,
                s |-> Spaces(2 * d) \o "\"" \o k \o "\": " \o v.s
                        \o (IF rest.s = "" THEN "" ELSE ",\n" \o rest.s)]

JSONStringify(v, d) ==
  CASE v.t = "circular" -> [ok |-> FALSE, s |-> ""]
    [] v.t \in {"null", "NaN"} -> [ok |-> TRUE, s |-> "null"]
    [] v.t = "error" -> [ok |-> TRUE, s |-> "{}"]
    [] v.t = "string" -> [ok |-> TRUE, s |-> "\"" \o v.s \o "\""]
    [] v.t = "number" -> [ok |-> TRUE, s |-> NumToString(v.n)]
    [] v.t = "boolean" -> [ok |-> TRUE, s |-> IF v.b THEN "true" ELSE "false"]
    [] v.t = "object" ->
         LET keys == {k \in DOMAIN v.o : v.o[k].t # "undefined"}
             props == JSONProps(v.o, keys, d + 1)
         IN IF keys = {} THEN [ok |-> TRUE, s |-> "{}"]
            ELSE IF ~props.ok THEN [ok |-> FALSE, s |-> ""]
            ELSE [ok |-> TRUE, s |-> "{\n" \o props.s \o "\n" \o Spaces(2 * d) \o "}"]
    [] OTHER -> [ok |-> TRUE, s |-> "undefined"]

\* String(arg) for a value that is not an object
StringOf(v) ==
  CASE v.t = "string" -> v.s
    [] v.t = "number" -> NumToString(v.n)
    [] v.t = "boolean" -> (IF v.b THEN "true" ELSE "false")
    [] v.t = "NaN" -> "NaN"
    [] OTHER -> "undefined"

\* typeof arg === 'object'
TypeofObject(v) == v.t \in {"object", "null", "error", "circular"}

\* lines 304-306: args.map(...).join(' ')
RECURSIVE FormatArgs(_)
FormatArgs(args) ==
  IF args = <<>> THEN [ok |-> TRUE, s |-> ""]
  ELSE LET first == IF TypeofObject(Head(args)) THEN JSONStringify(Head(args), 0)
                    ELSE [ok |-> TRUE, s |-> StringOf(Head(args))]
           rest == FormatArgs(Tail(args))
       IN IF ~first.ok \/ ~rest.ok THEN [ok |-> FALSE, s |-> ""]
          ELSE [ok |-> TRUE,
                s |-> first.s \o (IF Len(args) > 1 THEN " " \o rest.s ELSE "")]

\* lines 303-320: the line a console method appends to stdout
ConsolePrefix(level) ==
  CASE level = "error" -> "[ERROR] "
    [] level = "warn" -> "[WARN] "
    [] OTHER -> ""

ConsoleLine(level, output) == ConsolePrefix(level) \o output \o "\n"

\* stdout.trimEnd() in place of the removal of one newline
cleanStdoutTrimEnd(out) ==
  LET b == LastNotIn(out, Len(out), Space)
  IN IF b = 0 THEN "" ELSE SubSeq(out, 1, b)

\* lines 213-218
cleanStdout(stdout) ==
  IF Len(stdout) > 0 /\ Ch(stdout, Len(stdout)) = "\n"
  THEN SubSeq(stdout, 1, Len(stdout) - 1)
  ELSE stdout

isTruthy(value) == value = "true" \/ value = "1"

\* lib/execution/languages
CodeLanguage == [JavaScript |-> "javascript", Python |-> "python"]
DEFAULT_CODE_LANGUAGE == CodeLanguage.JavaScript
isValidCodeLanguage(language) == language \in {CodeLanguage.JavaScript, CodeLanguage.Python}

USE_HTTP_ROUTE == "__USE_HTTP_ROUTE__"

\* /^import\s+/m.test(code)
RECURSIVE ImportAtLineStart(_, _)
ImportAtLineStart(code, i) ==
  IF i > Len(code) THEN FALSE
  ELSE IF /\ (i = 1 \/ Ch(code, i - 1) \in {"\n", "\r"})
          /\ StartsAt(code, i, "import")
          /\ i + 6 <= Len(code)
          /\ Ch(code, i + 6) \in Space
       THEN TRUE
       ELSE ImportAtLineStart(code, i + 1)

\* /require\s*\(\s*['"`]/.test(code); the backquote cannot be written in a
\* string of this module, so template-literal arguments are not in the corpus
RECURSIVE RequireCall(_, _)
RequireCall(code, i) ==
  IF i > Len(code) THEN FALSE
  ELSE IF StartsAt(code, i, "require")
       THEN LET p == FirstNotIn(code, i + 7, Space)
                q == IF p = 0 THEN 0 ELSE FirstNotIn(code, p + 1, Space)
            IN IF p # 0 /\ Ch(code, p) = "(" /\ q # 0 /\ Ch(code, q) \in {"'", "\""}
               THEN TRUE
               ELSE RequireCall(code, i + 1)
       ELSE RequireCall(code, i + 1)

\* lines 276-277
hasImports(lang, resolvedCode) ==
  /\ lang = CodeLanguage.JavaScript
  /\ (ImportAtLineStart(resolvedCode, 1) \/ RequireCall(resolvedCode, 1))

(***************************************************************************)
(* User scripts: the code text and what the text does when it is run as    *)
(* the body of the wrapper's inner async function                          *)
(***************************************************************************)
Log(level, args) == [op |-> "log", level |-> level, args |-> args]
Throw(value) == [op |-> "throw", value |-> value]
Return(value) == [op |-> "return", value |-> value]
\* return of an identifier of the context (a ReferenceError when unbound)
ReturnVar(name) == [op |-> "returnVar", name |-> name]
\* await of a promise the host settles: settle is the set of ways it can end
Await(settle, error) == [op |-> "await", settle |-> settle, error |-> error]
\* a loop without exit and without await
Loop == [op |-> "loop"]

Script(code, compiles, program) ==
  [code |-> code, compiles |-> compiles, program |-> program]

Scripts ==
  { Script("return 1+1;", TRUE, <<Return(Num(2))>>),
    Script("console.warn(' y '); console.log('x\\n'); return 5;", TRUE,
           <<Log("warn", <<Str(" y ")>>), Log("log", <<Str("x\n")>>), Return(Num(5))>>),
    Script("console.log('p'); await fetch('http://h'); console.error('q'); return 7;", TRUE,
           <<Log("log", <<Str("p")>>),
             Await({"resolve", "reject", "never"}, ErrorVal("TypeError", "fetch failed")),
             Log("error", <<Str("q")>>), Return(Num(7))>>),
    Script("console.log('hi'); return 42;", TRUE,
           <<Log("log", <<Str("hi")>>), Return(Num(42))>>),
    Script("while(true){}", TRUE, <<Loop>>),
    Script("console.log('a'); console.warn('b', 1); while(true){}", TRUE,
           <<Log("log", <<Str("a")>>), Log("warn", <<Str("b"), Num(1)>>), Loop>>),
    Script("console.log('x'); throw new Error('boom');", TRUE,
           <<Log("log", <<Str("x")>>), Throw(ErrorVal("Error", "boom"))>>),
    Script("throw new Error('__USE_HTTP_ROUTE__');", TRUE,
           <<Throw(ErrorVal("Error", USE_HTTP_ROUTE))>>),
    Script("console.log('n'); throw null;", TRUE,
           <<Log("log", <<Str("n")>>), Throw(Null)>>),
    Script("throw 'oops';", TRUE, <<Throw(Str("oops"))>>),
    Script("const a = {}; a.a = a; console.log('c'); throw a;", TRUE,
           <<Log("log", <<Str("c")>>), Throw(Circular)>>),
    Script("console.error({k: 1}); await new Promise(() => {});", TRUE,
           <<Log("error", <<Obj([k |-> Num(1)])>>), Await({"never"}, Undefined)>>),
    Script("console.log('s'); await fetch('http://h'); console.log('t'); while(true){}", TRUE,
           <<Log("log", <<Str("s")>>),
             Await({"resolve", "reject", "never"}, ErrorVal("TypeError", "fetch failed")),
             Log("log", <<Str("t")>>), Loop>>),
    Script("import fs from 'fs';", FALSE, <<>>),
    Script("const fs = require('fs'); return 1;", TRUE,
           <<Throw(ErrorVal("ReferenceError", "require is not defined"))>>),
    Script("<variable.lib>import fs from 'fs';", FALSE, <<>>),
    Script("print('hi')", TRUE,
           <<Throw(ErrorVal("ReferenceError", "print is not defined"))>>),
    Script("return {{FOO}};", TRUE, <<ReturnVar("__var_FOO")>>),
    Script("return {{console}};", TRUE, <<ReturnVar("__var_console")>>),
    Script("return (;", FALSE, <<>>) }

\* params, envVars, blockData, blockNameMapping and workflowVariables of a request
Data(params, envVars, blockData, blockNameMapping, workflowVariables) ==
  [params |-> params, envVars |-> envVars, blockData |-> blockData,
   blockNameMapping |-> blockNameMapping, workflowVariables |-> workflowVariables]

DataSets ==
  { Data(EmptyObj, EmptyObj, EmptyObj, EmptyObj, <<>>),
    Data(Obj([FOO |-> Str("p")]), Obj([FOO |-> Str("bar")]), EmptyObj, EmptyObj,
         <<[name |-> "lib", type |-> "string", value |-> Str("fs")]>>),
    Data(Obj([FOO |-> Num(7)]), EmptyObj,
         Obj([id1 |-> Obj([out |-> Str("r")])]), Obj([blk |-> Str("id1")]),
         <<[name |-> "my var", type |-> "number", value |-> Str("42")]>>) }

\* the language field of a request; "ruby" is not a valid code language
Languages == {"javascript", "python", "ruby"}

\* values of the environment variable E2B_ENABLED
E2BValues == {"true", "1", "false"}

\* largest timeout of a request, in clock ticks
MaxTimeout == 2
\* the clock stops at MaxTime
MaxTime == 3

Requests ==
  [script : Scripts, language : Languages, isCustomTool : BOOLEAN,
   timeout : 1..MaxTimeout, data : DataSets]

(***************************************************************************)
(* executeFunction                                                         *)
(***************************************************************************)
VARIABLES
  request,         \* the input of the invocation
  E2B_ENABLED,     \* env.E2B_ENABLED
  pc,              \* position of executeFunction
  codeResolution,  \* result of resolveCodeVariables
  vmContext,       \* the context given to createContext
  script,          \* the compiled Script
  us,              \* state of the user script
  ip,              \* index of the next step of the user script
  thrown,          \* value thrown by the user script
  result,          \* the promise returned by script.runInContext
  stdout,          \* the captured output
  now,             \* clock, in ticks since startTime
  outcome          \* how executeFunction ended

\* Several invocations in flight in one process
VARIABLES
  invocations,     \* the calls of executeFunction, by number
  frames,          \* the local variables stdout and contextVariables of each call
  running          \* the call whose code is on the stack, 0 when none is

\* The resolver run on its own
VARIABLES
  source,          \* the code and the data given to resolveCodeVariables
  history          \* one entry for each pass that has run

\* The tool calling executeFunction in its own process
VARIABLES
  tool             \* the call of directExecution: its input, position and outcome

\* The command-line program and the machine it runs on
VARIABLES
  configFile,      \* content of CONFIG_FILE
  dataDir,         \* whether DATA_DIR exists
  containers,      \* the running containers, each with the port it publishes
  command,         \* the command that runs, with its options
  cpc,             \* position of the command
  config,          \* the local variable config of the command
  wasRunning,      \* the local variable wasRunning of upgrade
  steps,           \* what the command has done so far, in order
  exitCode,        \* exit code of the command that ended last
  browser,         \* the URL the browser was opened at by the command
  secretsMade,     \* number of calls of generateSecret
  commandsRun      \* number of commands started

\* The profiler route
VARIABLES
  memorySamples,   \* the module-level buffer
  recorded,        \* every sample pushed since the buffer was last emptied
  requests,        \* the requests in flight or answered, by number
  ptime,           \* Date.now()
  effects          \* tracking sessions, snapshots and gc runs started

invocationVars == <<request, pc, codeResolution, vmContext, script, us, ip,
                    thrown, result, stdout, now, outcome>>
concVars == <<invocations, frames, running>>
resolverVars == <<source, history>>
toolVars == <<tool>>
cliVars == <<configFile, dataDir, containers, command, cpc, config, wasRunning, steps,
             exitCode, browser, secretsMade, commandsRun>>
profilerVars == <<memorySamples, recorded, requests, ptime, effects>>
\* the programs next to executeFunction
peerVars == <<toolVars, cliVars, profilerVars>>

vars == <<E2B_ENABLED, invocationVars, concVars, resolverVars, peerVars>>

NoValue == [t |-> "none"]

startTime == 0

\* no invocation of the single-invocation model, none of the concurrent ones,
\* no run of the resolver on its own
NoInvocation ==
  /\ request = NoValue
  /\ pc = "Idle"
  /\ codeResolution = NoValue
  /\ vmContext = NoValue
  /\ script = NoValue
  /\ us = "idle"
  /\ ip = 1
  /\ thrown = NoValue
  /\ result = NoValue
  /\ stdout = ""
  /\ now = startTime
  /\ outcome = NoValue

NoInvocations == invocations = <<>> /\ frames = <<>> /\ running = 0

NoResolverRun == source = NoValue /\ history = <<>>

\* no call of the tool, no command, no profiler request
NoToolCall == tool = NoValue

NoCommand ==
  /\ configFile = NoValue
  /\ dataDir = FALSE
  /\ containers = <<>>
  /\ command = NoValue
  /\ cpc = "Idle"
  /\ config = NoValue
  /\ wasRunning = FALSE
  /\ steps = <<>>
  /\ exitCode = NoValue
  /\ browser = NoValue
  /\ secretsMade = 0
  /\ commandsRun = 0

NoProfilerRequest ==
  /\ memorySamples = <<>>
  /\ recorded = <<>>
  /\ requests = <<>>
  /\ ptime = 0
  /\ effects = <<>>

NoPeers == NoToolCall /\ NoCommand /\ NoProfilerRequest

PYTHON_REQUIRES_E2B ==
  "Python execution requires E2B to be enabled. Please contact your administrator to enable E2B, or use JavaScript instead."
IMPORTS_REQUIRE_E2B ==
  "JavaScript code with import statements requires E2B to be enabled. Please remove the import statements, or contact your administrator to enable E2B."

\* error.message
MessageOf(error) ==
  CASE error.t = "error" -> Str(error.message)
    [] error.t = "object" -> Get(error, "message")
    [] OTHER -> Undefined

Returned(value) == [kind |-> "returned", value |-> value]
Rejected(error) == [kind |-> "thrown", error |-> error]

\* lines 424-447: the catch block of executeFunction
Catch(error, out, executionTime) ==
  IF error.t \in {"null", "undefined"}
  THEN Rejected(ErrorVal("TypeError", "Cannot read properties of "
                           \o error.t \o " (reading 'message')"))
  ELSE IF MessageOf(error) = Str(USE_HTTP_ROUTE)
  THEN Rejected(error)
  ELSE Returned([success |-> FALSE,
                 output |-> [result |-> Null, stdout |-> cleanStdout(out),
                             executionTime |-> executionTime],
                 error |-> Or(MessageOf(error), Str("Function execution failed"))])

\* lines 416-423
Success(value, out, executionTime) ==
  Returned([success |-> TRUE,
            output |-> [result |-> value, stdout |-> cleanStdout(out),
                        executionTime |-> executionTime]])

\* lines 245-246
ExecutionParams(params) ==
  Obj([k \in (DOMAIN params.o) \cup {"_context"} |->
         IF k = "_context" THEN Undefined ELSE params.o[k]])

\* line 273
Lang(language) == IF isValidCodeLanguage(language) THEN language ELSE DEFAULT_CODE_LANGUAGE

\* the third check without its language and import condition
GateErrorSandboxFirst(lang, e2bEnabled, isCustomTool, imports) ==
  IF lang = CodeLanguage.Python /\ ~e2bEnabled
  THEN ErrorVal("Error", PYTHON_REQUIRES_E2B)
  ELSE IF lang = CodeLanguage.JavaScript /\ imports /\ ~e2bEnabled
  THEN ErrorVal("Error", IMPORTS_REQUIRE_E2B)
  ELSE IF e2bEnabled /\ ~isCustomTool
  THEN ErrorVal("Error", USE_HTTP_ROUTE)
  ELSE NoValue

\* lines 279-298: the error thrown by the checks, NoValue when none throws
GateError(lang, e2bEnabled, isCustomTool, imports) ==
  IF lang = CodeLanguage.Python /\ ~e2bEnabled
  THEN ErrorVal("Error", PYTHON_REQUIRES_E2B)
  ELSE IF lang = CodeLanguage.JavaScript /\ imports /\ ~e2bEnabled
  THEN ErrorVal("Error", IMPORTS_REQUIRE_E2B)
  ELSE IF e2bEnabled /\ ~isCustomTool /\ (lang = CodeLanguage.Python \/ imports)
  THEN ErrorVal("Error", USE_HTTP_ROUTE)
  ELSE NoValue

\* lines 301-359: the names of the allow-list
AllowList ==
  {"console", "fetch", "URL", "URLSearchParams", "Headers", "Request", "Response",
   "FormData", "Blob", "TextEncoder", "TextDecoder", "AbortController", "AbortSignal",
   "atob", "btoa", "Buffer", "setTimeout", "clearTimeout", "JSON", "Object", "Array",
   "String", "Number", "Boolean", "Date", "Math", "RegExp", "Error", "Promise", "Map",
   "Set", "parseInt", "parseFloat", "isNaN", "isFinite", "encodeURIComponent",
   "decodeURIComponent", "encodeURI", "decodeURI"}

Capability(name) == [t |-> "capability", name |-> name]

\* lines 301-361: the allow-list, then ...contextVariables
Context(contextVariables) ==
  [k \in AllowList \cup (DOMAIN contextVariables) |->
     IF k \in DOMAIN contextVariables THEN contextVariables[k] ELSE Capability(k)]

\* lines 372-375: every line of the code indented by six spaces
RECURSIVE IndentLines(_, _)
IndentLines(code, i) ==
  IF i > Len(code) THEN ""
  ELSE IF Ch(code, i) = "\n" THEN "\n      " \o IndentLines(code, i + 1)
  ELSE Ch(code, i) \o IndentLines(code, i + 1)

\* lines 365-386
FullScript(resolvedCode) ==
  ";(async () => {\n  try {\n    return await (async () => {\n"
    \o "      " \o IndentLines(resolvedCode, 1) \o "\n"
    \o "    })();\n  } catch (error) {\n    console.error(error);\n    throw error;\n  }\n})()"

\* runInContext called without a timeout option
RunTimeoutUnset(req) == 0

\* line 406: the timeout option of runInContext; 0 stands for no timeout
RunTimeout(req) == req.timeout

TimeoutError(timeout) ==
  ErrorVal("Error", "Script execution timed out after " \o NumToString(timeout) \o "ms")

Init ==
  /\ request \in Requests
  /\ E2B_ENABLED \in E2BValues
  /\ pc = "Pending"
  /\ codeResolution = NoValue
  /\ vmContext = NoValue
  /\ script = NoValue
  /\ us = "idle"
  /\ ip = 1
  /\ thrown = NoValue
  /\ result = NoValue
  /\ stdout = ""
  /\ now = startTime
  /\ outcome = NoValue
  /\ NoInvocations
  /\ NoResolverRun
  /\ NoPeers

\* the catch block ends the invocation
Fail(error) ==
  /\ outcome' = Catch(error, stdout, now - startTime)
  /\ pc' = "Done"

\* lines 232-270
Resolve ==
  /\ pc = "Pending"
  /\ codeResolution' =
       resolveCodeVariables(request.script.code, ExecutionParams(request.data.params),
                            request.data.envVars, request.data.blockData,
                            request.data.blockNameMapping, request.data.workflowVariables)
  /\ pc' = "Resolved"
  /\ UNCHANGED <<concVars, resolverVars, request, E2B_ENABLED, peerVars, vmContext, script, us, ip, thrown, result,
                 stdout, now, outcome>>

\* lines 272-298
PolicyGate ==
  /\ pc = "Resolved"
  /\ LET lang == Lang(request.language)
         error == GateError(lang, isTruthy(E2B_ENABLED), request.isCustomTool,
                            hasImports(lang, codeResolution.resolvedCode))
     IN IF error # NoValue
        THEN Fail(error)
        ELSE pc' = "GatePassed" /\ outcome' = outcome
  /\ UNCHANGED <<concVars, resolverVars, request, E2B_ENABLED, peerVars, codeResolution, vmContext, script, us, ip,
                 thrown, result, stdout, now>>

\* lines 301-363
BuildContext ==
  /\ pc = "GatePassed"
  /\ vmContext' = Context(codeResolution.contextVariables)
  /\ pc' = "ContextBuilt"
  /\ UNCHANGED <<concVars, resolverVars, request, E2B_ENABLED, peerVars, codeResolution, script, us, ip, thrown, result,
                 stdout, now, outcome>>

\* lines 365-403
Compile ==
  /\ pc = "ContextBuilt"
  /\ IF request.script.compiles
     THEN /\ script' = [fullScript |-> FullScript(codeResolution.resolvedCode)]
          /\ pc' = "Compiled"
          /\ outcome' = outcome
     ELSE /\ script' = script
          /\ Fail(ErrorVal("SyntaxError", "Unexpected token"))
  /\ UNCHANGED <<concVars, resolverVars, request, E2B_ENABLED, peerVars, codeResolution, vmContext, us, ip, thrown,
                 result, stdout, now>>

\* line 405: script.runInContext starts the script
RunInContext ==
  /\ pc = "Compiled"
  /\ pc' = "Running"
  /\ us' = "run"
  /\ result' = [state |-> "pending"]
  /\ UNCHANGED <<concVars, resolverVars, request, E2B_ENABLED, peerVars, codeResolution, vmContext, script, ip, thrown,
                 stdout, now, outcome>>

\* the step the user script is about to take; the end of the code returns undefined
CurrentStep ==
  IF ip <= Len(request.script.program) THEN request.script.program[ip]
  ELSE Return(Undefined)

\* The user script takes one step.  Until its first await, return or throw it
\* runs inside runInContext; then runInContext returns the wrapper's promise
\* and executeFunction awaits it.
ScriptStep ==
  /\ pc \in {"Running", "Awaiting"}
  /\ us = "run"
  /\ LET step == CurrentStep
         line == IF step.op = "log" THEN FormatArgs(step.args) ELSE [ok |-> TRUE, s |-> ""]
     IN CASE step.op = "log" /\ line.ok ->
               /\ stdout' = stdout \o ConsoleLine(step.level, line.s)
               /\ ip' = ip + 1
               /\ UNCHANGED <<pc, us, thrown, result>>
          [] step.op = "log" /\ ~line.ok ->
               /\ thrown' = ErrorVal("TypeError", "Converting circular structure to JSON")
               /\ us' = "thrown"
               /\ pc' = "Awaiting"
               /\ UNCHANGED <<ip, result, stdout>>
          [] step.op = "throw" ->
               /\ thrown' = step.value
               /\ us' = "thrown"
               /\ pc' = "Awaiting"
               /\ UNCHANGED <<ip, result, stdout>>
          [] step.op = "return" ->
               /\ result' = [state |-> "fulfilled", value |-> step.value]
               /\ us' = "end"
               /\ pc' = "Awaiting"
               /\ UNCHANGED <<ip, thrown, stdout>>
          [] step.op = "returnVar" ->
               /\ IF step.name \in DOMAIN vmContext
                  THEN /\ result' = [state |-> "fulfilled", value |-> vmContext[step.name]]
                       /\ us' = "end"
                       /\ thrown' = thrown
                  ELSE /\ thrown' = ErrorVal("ReferenceError", step.name \o " is not defined")
                       /\ us' = "thrown"
                       /\ result' = result
               /\ pc' = "Awaiting"
               /\ UNCHANGED <<ip, stdout>>
          [] step.op = "await" ->
               /\ us' = "wait"
               /\ pc' = "Awaiting"
               /\ UNCHANGED <<ip, thrown, result, stdout>>
          [] step.op = "loop" ->
               /\ us' = "loop"
               /\ UNCHANGED <<pc, ip, thrown, result, stdout>>
  /\ UNCHANGED <<concVars, resolverVars, request, E2B_ENABLED, peerVars, codeResolution, vmContext, script, now, outcome>>

\* the host settles the promise the user script awaits
ScriptSettle ==
  /\ pc = "Awaiting"
  /\ us = "wait"
  /\ \E how \in CurrentStep.settle \ {"never"} :
       IF how = "resolve"
       THEN us' = "run" /\ ip' = ip + 1 /\ thrown' = thrown
       ELSE us' = "thrown" /\ ip' = ip /\ thrown' = CurrentStep.error
  /\ UNCHANGED <<concVars, resolverVars, request, E2B_ENABLED, peerVars, pc, codeResolution, vmContext, script, result,
                 stdout, now, outcome>>

\* lines 381-384: the wrapper's catch block logs the error and throws it again
WrapperCatch ==
  /\ pc = "Awaiting"
  /\ us = "thrown"
  /\ LET line == FormatArgs(<<thrown>>)
     IN IF line.ok
        THEN /\ stdout' = stdout \o ConsoleLine("error", line.s)
             /\ result' = [state |-> "rejected", value |-> thrown]
        ELSE /\ stdout' = stdout
             /\ result' = [state |-> "rejected",
                           value |-> ErrorVal("TypeError",
                                              "Converting circular structure to JSON")]
  /\ us' = "end"
  /\ UNCHANGED <<concVars, resolverVars, request, E2B_ENABLED, peerVars, pc, codeResolution, vmContext, script, ip, thrown,
                 now, outcome>>

\* line 405: the timeout of runInContext interrupts the script while it still
\* runs inside runInContext
VmTimeout ==
  /\ pc = "Running"
  /\ RunTimeout(request) > 0
  /\ now - startTime >= RunTimeout(request)
  /\ us' = "interrupted"
  /\ Fail(TimeoutError(RunTimeout(request)))
  /\ UNCHANGED <<concVars, resolverVars, request, E2B_ENABLED, peerVars, codeResolution, vmContext, script, ip, thrown,
                 result, stdout, now>>

\* a rejected promise makes executeFunction compile and run the script again
ResumeRetries ==
  /\ pc = "Awaiting"
  /\ result.state \in {"fulfilled", "rejected"}
  /\ IF result.state = "fulfilled"
     THEN /\ outcome' = Success(result.value, stdout, now - startTime)
          /\ pc' = "Done"
          /\ UNCHANGED <<us, ip, thrown, result>>
     ELSE /\ pc' = "ContextBuilt"
          /\ us' = "idle"
          /\ ip' = 1
          /\ thrown' = NoValue
          /\ result' = NoValue
          /\ outcome' = outcome
  /\ UNCHANGED <<concVars, resolverVars, request, E2B_ENABLED, peerVars, codeResolution, vmContext,
                 script, stdout, now>>

\* lines 405-447: the await of executeFunction ends when the promise settles
Resume ==
  /\ pc = "Awaiting"
  /\ result.state \in {"fulfilled", "rejected"}
  /\ IF result.state = "fulfilled"
     THEN outcome' = Success(result.value, stdout, now - startTime) /\ pc' = "Done"
     ELSE Fail(result.value)
  /\ UNCHANGED <<concVars, resolverVars, request, E2B_ENABLED, peerVars, codeResolution, vmContext, script, us, ip,
                 thrown, result, stdout, now>>

\* Time passes while user code runs or is awaited.  Inside runInContext it
\* does not pass the deadline of an armed timeout.
Tick ==
  /\ now < MaxTime
  /\ \/ pc = "Running" /\ (RunTimeout(request) = 0 \/ now - startTime < RunTimeout(request))
     \/ pc = "Awaiting" /\ us \in {"run", "wait", "loop"}
  /\ now' = now + 1
  /\ UNCHANGED <<concVars, resolverVars, request, E2B_ENABLED, peerVars, pc, codeResolution, vmContext, script, us, ip,
                 thrown, result, stdout, outcome>>

Next ==
  \/ Resolve
  \/ PolicyGate
  \/ BuildContext
  \/ Compile
  \/ RunInContext
  \/ ScriptStep
  \/ ScriptSettle
  \/ WrapperCatch
  \/ VmTimeout
  \/ Resume
  \/ Tick

Spec == Init /\ [][Next]_vars

(***************************************************************************)
(* Several invocations of executeFunction in one process.  JavaScript runs *)
(* one call at a time: a call keeps the stack from its entry, or from the  *)
(* settlement it awaited, until it awaits or ends.  There is no clock: the *)
(* deadline of runInContext can pass at any point of the synchronous run,  *)
(* and executionTime is written as 0.                                      *)
(***************************************************************************)
\* number of invocations in flight
NInvocations == 2

ScriptOf(code) == CHOOSE s \in Scripts : s.code = code

ConcRequest(code, language, data) ==
  [script |-> ScriptOf(code), language |-> language, isCustomTool |-> FALSE,
   timeout |-> 1, data |-> data]

ConcRequests ==
  { ConcRequest("console.log('p'); await fetch('http://h'); console.error('q'); return 7;",
                "javascript", Data(EmptyObj, EmptyObj, EmptyObj, EmptyObj, <<>>)),
    ConcRequest("return {{FOO}};", "javascript",
                Data(Obj([FOO |-> Str("p")]), Obj([FOO |-> Str("bar")]), EmptyObj, EmptyObj,
                     <<[name |-> "lib", type |-> "string", value |-> Str("fs")]>>)),
    ConcRequest("return {{FOO}};", "javascript",
                Data(Obj([FOO |-> Num(7)]), EmptyObj, EmptyObj, EmptyObj, <<>>)),
    ConcRequest("return (;", "javascript",
                Data(EmptyObj, EmptyObj, EmptyObj, EmptyObj, <<>>)) }

\* one buffer and one bindings object for the whole module
SharedFrame(i) == 1

\* line 227 (let stdout) and line 195 (const contextVariables): each call has
\* variables of its own
FrameOf(i) == i

NewInvocation(req) ==
  [request |-> req, pc |-> "Pending", resolvedCode |-> NoValue, vmContext |-> NoValue,
   script |-> NoValue, us |-> "idle", ip |-> 1, thrown |-> NoValue, result |-> NoValue,
   outcome |-> NoValue]

ConcInit ==
  /\ invocations \in [1..NInvocations -> {NewInvocation(r) : r \in ConcRequests}]
  /\ frames = [f \in 1..NInvocations |-> NoValue]
  /\ running = 0
  /\ E2B_ENABLED = "false"
  /\ NoInvocation
  /\ NoResolverRun
  /\ NoPeers

StdoutOf(i) == frames[FrameOf(i)].stdout

ConcStep(i) ==
  LET program == invocations[i].request.script.program
      n == invocations[i].ip
  IN IF n <= Len(program) THEN program[n] ELSE Return(Undefined)

\* stdout += line
ConcAppend(i, line) ==
  frames' = [frames EXCEPT ![FrameOf(i)].stdout = @ \o line]

\* lines 424-447
ConcFail(i, error) ==
  invocations' = [invocations EXCEPT ![i].outcome = Catch(error, StdoutOf(i), 0),
                                     ![i].pc = "Done"]

\* lines 224-270: the call is entered when no other code runs
ConcResolve(i) ==
  /\ running = 0
  /\ invocations[i].pc = "Pending"
  /\ LET req == invocations[i].request
         res == resolveCodeVariables(req.script.code, ExecutionParams(req.data.params),
                                     req.data.envVars, req.data.blockData,
                                     req.data.blockNameMapping, req.data.workflowVariables)
     IN /\ frames' = [frames EXCEPT ![FrameOf(i)] =
                        [stdout |-> "", contextVariables |-> res.contextVariables]]
        /\ invocations' = [invocations EXCEPT ![i].resolvedCode = res.resolvedCode,
                                              ![i].pc = "Resolved"]
  /\ running' = i
  /\ UNCHANGED <<E2B_ENABLED, peerVars, invocationVars, resolverVars>>

\* lines 272-298
ConcPolicyGate(i) ==
  /\ running = i
  /\ invocations[i].pc = "Resolved"
  /\ LET req == invocations[i].request
         lang == Lang(req.language)
         error == GateError(lang, isTruthy(E2B_ENABLED), req.isCustomTool,
                            hasImports(lang, invocations[i].resolvedCode))
     IN IF error # NoValue
        THEN ConcFail(i, error) /\ running' = 0
        ELSE /\ invocations' = [invocations EXCEPT ![i].pc = "GatePassed"]
             /\ running' = running
  /\ UNCHANGED <<frames, E2B_ENABLED, peerVars, invocationVars, resolverVars>>

\* lines 301-363
ConcBuildContext(i) ==
  /\ running = i
  /\ invocations[i].pc = "GatePassed"
  /\ invocations' =
       [invocations EXCEPT ![i].vmContext = Context(frames[FrameOf(i)].contextVariables),
                           ![i].pc = "ContextBuilt"]
  /\ UNCHANGED <<frames, running, E2B_ENABLED, peerVars, invocationVars, resolverVars>>

\* lines 365-403
ConcCompile(i) ==
  /\ running = i
  /\ invocations[i].pc = "ContextBuilt"
  /\ IF invocations[i].request.script.compiles
     THEN /\ invocations' =
               [invocations EXCEPT ![i].script =
                                     [fullScript |-> FullScript(invocations[i].resolvedCode)],
                                   ![i].pc = "Compiled"]
          /\ running' = running
     ELSE /\ ConcFail(i, ErrorVal("SyntaxError", "Unexpected token"))
          /\ running' = 0
  /\ UNCHANGED <<frames, E2B_ENABLED, peerVars, invocationVars, resolverVars>>

\* line 405
ConcRunInContext(i) ==
  /\ running = i
  /\ invocations[i].pc = "Compiled"
  /\ invocations' = [invocations EXCEPT ![i].pc = "Running",
                                        ![i].us = "run",
                                        ![i].result = [state |-> "pending"]]
  /\ UNCHANGED <<frames, running, E2B_ENABLED, peerVars, invocationVars, resolverVars>>

\* one step of the user script of call i; the call leaves the stack when the
\* script awaits, returns or throws
ConcScriptStep(i) ==
  /\ running = i
  /\ invocations[i].pc \in {"Running", "Awaiting"}
  /\ invocations[i].us = "run"
  /\ LET step == ConcStep(i)
         line == IF step.op = "log" THEN FormatArgs(step.args) ELSE [ok |-> TRUE, s |-> ""]
         circular == ErrorVal("TypeError", "Converting circular structure to JSON")
     IN CASE step.op = "log" /\ line.ok ->
               /\ ConcAppend(i, ConsoleLine(step.level, line.s))
               /\ invocations' = [invocations EXCEPT ![i].ip = @ + 1]
               /\ running' = running
          [] step.op = "log" /\ ~line.ok ->
               /\ invocations' = [invocations EXCEPT ![i].thrown = circular,
                                                     ![i].us = "thrown",
                                                     ![i].pc = "Awaiting"]
               /\ running' = 0
               /\ frames' = frames
          [] step.op = "throw" ->
               /\ invocations' = [invocations EXCEPT ![i].thrown = step.value,
                                                     ![i].us = "thrown",
                                                     ![i].pc = "Awaiting"]
               /\ running' = 0
               /\ frames' = frames
          [] step.op = "return" ->
               /\ invocations' =
                    [invocations EXCEPT ![i].result = [state |-> "fulfilled",
                                                       value |-> step.value],
                                        ![i].us = "end",
                                        ![i].pc = "Awaiting"]
               /\ running' = 0
               /\ frames' = frames
          [] step.op = "returnVar" ->
               /\ IF step.name \in DOMAIN invocations[i].vmContext
                  THEN invocations' =
                         [invocations EXCEPT
                            ![i].result = [state |-> "fulfilled",
                                           value |-> invocations[i].vmContext[step.name]],
                            ![i].us = "end",
                            ![i].pc = "Awaiting"]
                  ELSE invocations' =
                         [invocations EXCEPT
                            ![i].thrown = ErrorVal("ReferenceError",
                                                   step.name \o " is not defined"),
                            ![i].us = "thrown",
                            ![i].pc = "Awaiting"]
               /\ running' = 0
               /\ frames' = frames
          [] step.op = "await" ->
               /\ invocations' = [invocations EXCEPT ![i].us = "wait",
                                                     ![i].pc = "Awaiting"]
               /\ running' = 0
               /\ frames' = frames
          [] step.op = "loop" ->
               /\ invocations' = [invocations EXCEPT ![i].us = "loop"]
               /\ running' = running
               /\ frames' = frames
  /\ UNCHANGED <<E2B_ENABLED, peerVars, invocationVars, resolverVars>>

\* the host settles the promise call i awaits; a resolved promise puts the
\* call back on the stack
ConcScriptSettle(i) ==
  /\ running = 0
  /\ invocations[i].pc = "Awaiting"
  /\ invocations[i].us = "wait"
  /\ \E how \in ConcStep(i).settle \ {"never"} :
       IF how = "resolve"
       THEN /\ invocations' = [invocations EXCEPT ![i].us = "run", ![i].ip = @ + 1]
            /\ running' = i
       ELSE /\ invocations' = [invocations EXCEPT ![i].us = "thrown",
                                                  ![i].thrown = ConcStep(i).error]
            /\ running' = running
  /\ UNCHANGED <<frames, E2B_ENABLED, peerVars, invocationVars, resolverVars>>

\* lines 381-384
ConcWrapperCatch(i) ==
  /\ running = 0
  /\ invocations[i].pc = "Awaiting"
  /\ invocations[i].us = "thrown"
  /\ LET line == FormatArgs(<<invocations[i].thrown>>)
         circular == ErrorVal("TypeError", "Converting circular structure to JSON")
     IN IF line.ok
        THEN /\ ConcAppend(i, ConsoleLine("error", line.s))
             /\ invocations' =
                  [invocations EXCEPT ![i].result = [state |-> "rejected",
                                                     value |-> invocations[i].thrown],
                                      ![i].us = "end"]
        ELSE /\ frames' = frames
             /\ invocations' =
                  [invocations EXCEPT ![i].result = [state |-> "rejected",
                                                     value |-> circular],
                                      ![i].us = "end"]
  /\ UNCHANGED <<running, E2B_ENABLED, peerVars, invocationVars, resolverVars>>

\* line 405: the timeout of runInContext
ConcVmTimeout(i) ==
  /\ running = i
  /\ invocations[i].pc = "Running"
  /\ RunTimeout(invocations[i].request) > 0
  /\ invocations' =
       [invocations EXCEPT
          ![i].us = "interrupted",
          ![i].outcome = Catch(TimeoutError(RunTimeout(invocations[i].request)),
                               StdoutOf(i), 0),
          ![i].pc = "Done"]
  /\ running' = 0
  /\ UNCHANGED <<frames, E2B_ENABLED, peerVars, invocationVars, resolverVars>>

\* lines 405-447
ConcResume(i) ==
  /\ running = 0
  /\ invocations[i].pc = "Awaiting"
  /\ invocations[i].result.state \in {"fulfilled", "rejected"}
  /\ IF invocations[i].result.state = "fulfilled"
     THEN invocations' =
            [invocations EXCEPT
               ![i].outcome = Success(invocations[i].result.value, StdoutOf(i), 0),
               ![i].pc = "Done"]
     ELSE ConcFail(i, invocations[i].result.value)
  /\ UNCHANGED <<frames, running, E2B_ENABLED, peerVars, invocationVars, resolverVars>>

ConcNext ==
  \E i \in 1..NInvocations :
    \/ ConcResolve(i)
    \/ ConcPolicyGate(i)
    \/ ConcBuildContext(i)
    \/ ConcCompile(i)
    \/ ConcRunInContext(i)
    \/ ConcScriptStep(i)
    \/ ConcScriptSettle(i)
    \/ ConcWrapperCatch(i)
    \/ ConcVmTimeout(i)
    \/ ConcResume(i)

ConcSpec == ConcInit /\ [][ConcNext]_vars

(***************************************************************************)
(* The tool: directExecution builds the input of executeFunction from the  *)
(* parameters of the tool, awaits the call and maps its outcome            *)
(***************************************************************************)
\* the constant is imported from a file that is not part of the sources; the
\* largest timeout of the requests stands for it
DEFAULT_EXECUTION_TIMEOUT_MS == MaxTimeout

SKIP_DIRECT_EXECUTION == "__SKIP_DIRECT_EXECUTION__"

\* s || d for a string, n || d for a number
StrOr(s, d) == IF s = "" THEN d ELSE s
NumOr(n, d) == IF n = 0 THEN d ELSE n

\* the declared workflow variables given as an object, in the order of its entries
Variables(entries) == [t |-> "object", entries |-> entries]

\* params.code as a string, or as an array of objects with a content each
CodeForms(code) == {Str(code), [t |-> "array", a |-> <<[content |-> code]>>]}

RECURSIVE JoinLines(_)
JoinLines(a) ==
  IF a = <<>> THEN ""
  ELSE IF Len(a) = 1 THEN a[1].content
  ELSE a[1].content \o "\n" \o JoinLines(Tail(a))

\* lines 339-341
codeContent(code) == IF code.t = "array" THEN JoinLines(code.a) ELSE code.s

\* the parameters of the tool that carry data: all absent, or all given;
\* an absent timeout is 0, an absent language is the empty string
ToolDataSets ==
  { [envVars |-> Undefined, blockData |-> Undefined, blockNameMapping |-> Undefined,
     workflowVariables |-> Undefined],
    [envVars |-> Obj([FOO |-> Str("bar")]), blockData |-> Obj([id1 |-> Obj([out |-> Str("r")])]),
     blockNameMapping |-> Obj([blk |-> Str("id1")]),
     workflowVariables |->
       Variables(<<[name |-> "lib", type |-> "string", value |-> Str("fs")]>>)] }

ToolInputs ==
  { [code |-> c, language |-> l, timeout |-> t, isCustomTool |-> i, data |-> d] :
      c \in UNION {CodeForms(sc.code) : sc \in Scripts},
      l \in {"", "javascript", "python"},
      t \in {0, 1},
      i \in BOOLEAN,
      d \in ToolDataSets }

\* lines 344-354: the input executeFunction is called with; no params are passed
ExecuteFunctionInput(params) ==
  [script |-> ScriptOf(codeContent(params.code)),
   language |-> StrOr(params.language, DEFAULT_CODE_LANGUAGE),
   isCustomTool |-> params.isCustomTool \/ FALSE,
   timeout |-> NumOr(params.timeout, DEFAULT_EXECUTION_TIMEOUT_MS),
   data |-> Data(EmptyObj,
                 Or(params.data.envVars, EmptyObj),
                 Or(params.data.blockData, EmptyObj),
                 Or(params.data.blockNameMapping, EmptyObj),
                 Or(params.data.workflowVariables, Variables(<<>>)).entries)]

\* the catch block rethrows the error it caught whatever its message is
DirectOutcomeRethrowsAll(o) ==
  IF o.kind = "returned"
  THEN Returned([success |-> o.value.success,
                 output |-> [result |-> o.value.output.result,
                             stdout |-> o.value.output.stdout],
                 error |-> IF "error" \in DOMAIN o.value THEN o.value.error ELSE Undefined])
  ELSE Rejected(o.error)

\* lines 356-370: what directExecution does with the outcome of executeFunction
DirectOutcome(o) ==
  IF o.kind = "returned"
  THEN Returned([success |-> o.value.success,
                 output |-> [result |-> o.value.output.result,
                             stdout |-> o.value.output.stdout],
                 error |-> IF "error" \in DOMAIN o.value THEN o.value.error ELSE Undefined])
  ELSE IF MessageOf(o.error) = Str(USE_HTTP_ROUTE)
  THEN Rejected(ErrorVal("Error", SKIP_DIRECT_EXECUTION))
  ELSE Rejected(o.error)

ToolInit ==
  /\ tool \in [params : ToolInputs, pc : {"Called"}, outcome : {NoValue}]
  /\ E2B_ENABLED \in E2BValues
  /\ NoInvocation
  /\ NoInvocations
  /\ NoResolverRun
  /\ NoCommand
  /\ NoProfilerRequest

\* lines 338-354: executeFunction is called
DirectCall ==
  /\ tool.pc = "Called"
  /\ pc = "Idle"
  /\ request' = ExecuteFunctionInput(tool.params)
  /\ pc' = "Pending"
  /\ tool' = [tool EXCEPT !.pc = "Awaiting"]
  /\ UNCHANGED <<E2B_ENABLED, codeResolution, vmContext, script, us, ip, thrown, result,
                 stdout, now, outcome, concVars, resolverVars, cliVars, profilerVars>>

\* lines 356-370: the call has settled
DirectSettle ==
  /\ tool.pc = "Awaiting"
  /\ pc = "Done"
  /\ tool' = [tool EXCEPT !.pc = "Done", !.outcome = DirectOutcome(outcome)]
  /\ UNCHANGED <<E2B_ENABLED, invocationVars, concVars, resolverVars, cliVars, profilerVars>>

ToolNext == DirectCall \/ Next \/ DirectSettle

ToolSpec == ToolInit /\ [][ToolNext]_vars

(***************************************************************************)
(* The command-line program: one command at a time on a machine with a     *)
(* configuration file, a data directory and containers.  Every docker      *)
(* command, wait and removal can succeed or fail.                          *)
(***************************************************************************)
DB_CONTAINER == "simstudio-db"
MIGRATIONS_CONTAINER == "simstudio-migrations"
REALTIME_CONTAINER == "simstudio-realtime"
APP_CONTAINER == "simstudio-app"
DEFAULT_PORT == "2222"

\* number of commands run one after the other
MaxCommands == 2

\* a file that JSON.parse rejects
Garbage == [t |-> "garbage"]

\* generateSecret: the n-th value drawn
generateSecret(n) == n

\* lines 77-87; an absent port is the empty string
createNewConfig(port, made, time) ==
  [port |-> StrOr(port, DEFAULT_PORT),
   betterAuthSecret |-> generateSecret(made + 1),
   encryptionKey |-> generateSecret(made + 2),
   internalApiSecret |-> generateSecret(made + 3),
   apiEncryptionKey |-> generateSecret(made + 4),
   disableAuth |-> TRUE,
   createdAt |-> time]

\* lines 41-72: the configuration returned and written, and the number of
\* secrets drawn so far
loadConfig(file, port, made, time) ==
  IF file \in {NoValue, Garbage}
  THEN [config |-> createNewConfig(port, made, time), made |-> made + 4]
  ELSE [config |-> IF port # "" THEN [file EXCEPT !.port = port] ELSE file, made |-> made]

\* lines 175-182
isRunning(up) == APP_CONTAINER \in DOMAIN up

\* lines 162-170: what is up after cleanupExistingContainers
cleanupExistingContainers(up) ==
  [n \in DOMAIN up \ {APP_CONTAINER, REALTIME_CONTAINER, MIGRATIONS_CONTAINER,
                           DB_CONTAINER} |-> up[n]]

\* a container started with docker run -d
Started(up, name, port) ==
  [n \in DOMAIN up \cup {name} |-> IF n = name THEN port ELSE up[n]]

\* the options of startSim
StartOptions(port, pull, open) == [port |-> port, pull |-> pull, open |-> open]

\* a command line: port is what follows -p ("" without -p), options are the
\* options startSim is called with, before is the machine as the command found it
Command(name, port, pull, open, yes) ==
  [name |-> name, port |-> port, yes |-> yes,
   \* line 643: without -p the option has its default
   options |-> StartOptions(StrOr(port, DEFAULT_PORT), pull, open)]

Commands ==
  {Command("start", port, pull, open, FALSE) :
     port \in {"", "3000"}, pull \in BOOLEAN, open \in BOOLEAN}
    \cup {Command(name, "", FALSE, FALSE, FALSE) :
            name \in {"stop", "status", "logs", "upgrade", "config"}}
    \cup {Command("reset", "", FALSE, FALSE, yes) : yes \in BOOLEAN}

\* a configuration written by an earlier start -p 3000, with the edit the
\* documentation describes for multi-user mode
SavedConfig == [createNewConfig("3000", 0, 0) EXCEPT !.disableAuth = FALSE]

\* the machines the commands are run on: never used, with a damaged
\* configuration file, set up and stopped, and running
Machines ==
  { [configFile |-> NoValue, dataDir |-> FALSE, containers |-> <<>>, secretsMade |-> 0],
    [configFile |-> Garbage, dataDir |-> TRUE, containers |-> <<>>, secretsMade |-> 0],
    [configFile |-> SavedConfig, dataDir |-> TRUE, containers |-> <<>>, secretsMade |-> 4],
    [configFile |-> SavedConfig, dataDir |-> TRUE, secretsMade |-> 4,
     containers |-> (DB_CONTAINER :> "5432") @@ (REALTIME_CONTAINER :> "3002")
                      @@ (APP_CONTAINER :> "3000")] }

CliInit ==
  /\ \E m \in Machines :
       /\ configFile = m.configFile
       /\ dataDir = m.dataDir
       /\ containers = m.containers
       /\ secretsMade = m.secretsMade
  /\ command = NoValue
  /\ cpc = "Idle"
  /\ config = NoValue
  /\ wasRunning = FALSE
  /\ steps = <<>>
  /\ exitCode = NoValue
  /\ browser = NoValue
  /\ commandsRun = 0
  /\ E2B_ENABLED = "false"
  /\ NoInvocation
  /\ NoInvocations
  /\ NoResolverRun
  /\ NoToolCall
  /\ NoProfilerRequest

cliFrame == <<E2B_ENABLED, invocationVars, concVars, resolverVars, toolVars, profilerVars>>

\* a step of the command, with its result
Did(step, ok) == steps' = Append(steps, [step |-> step, ok |-> ok])

\* the command returns, or calls process.exit(code)
Ends(code) == cpc' = "Idle" /\ exitCode' = code

\* lines 646-699: the action of the command that was typed
Invoke(cmd) ==
  /\ cpc = "Idle"
  /\ commandsRun < MaxCommands
  /\ command' = cmd @@ [before |-> [configFile |-> configFile, dataDir |-> dataDir,
                                      containers |-> containers]]
  /\ cpc' = cmd.name
  /\ commandsRun' = commandsRun + 1
  /\ steps' = <<>>
  /\ exitCode' = NoValue
  /\ browser' = NoValue
  /\ config' = NoValue
  /\ wasRunning' = FALSE
  /\ UNCHANGED <<configFile, dataDir, containers, secretsMade, cliFrame>>

\* lines 256-279: the docker check, the check for a running app, and the
\* configuration loaded or created and written back
StartCheckDocker(dockerRunning) ==
  /\ cpc = "start"
  /\ IF ~dockerRunning
     THEN /\ Did("docker", FALSE)
          /\ Ends(1)
          /\ UNCHANGED <<configFile, config, secretsMade>>
     ELSE IF isRunning(containers)
     THEN LET loaded == loadConfig(configFile, "", secretsMade, commandsRun) IN
          /\ config' = loaded.config
          /\ configFile' = loaded.config
          /\ secretsMade' = loaded.made
          /\ Did("running", TRUE)
          /\ Ends(0)
     ELSE LET loaded == loadConfig(configFile, command.options.port, secretsMade,
                                   commandsRun) IN
          /\ config' = loaded.config
          /\ configFile' = loaded.config
          /\ secretsMade' = loaded.made
          /\ Did("config", TRUE)
          /\ cpc' = IF command.options.pull THEN "pull" ELSE "network"
          /\ UNCHANGED exitCode
  /\ UNCHANGED <<dataDir, containers, command, wasRunning, browser, commandsRun, cliFrame>>

\* a step of startSim that changes nothing on the machine: it goes on when it
\* succeeds and exits with 1 when it fails
StartStep(at, ok, next) ==
  /\ cpc = at
  /\ Did(at, ok)
  /\ IF ok THEN cpc' = next /\ UNCHANGED exitCode ELSE Ends(1)
  /\ UNCHANGED <<configFile, dataDir, containers, command, config, wasRunning, browser,
                 secretsMade, commandsRun, cliFrame>>

\* a step of startSim that starts a container
StartContainer(at, ok, next, name, port) ==
  /\ cpc = at
  /\ Did(at, ok)
  /\ IF ok
     THEN /\ containers' = Started(containers, name, port)
          /\ cpc' = next
          /\ UNCHANGED exitCode
     ELSE Ends(1) /\ UNCHANGED containers
  /\ UNCHANGED <<configFile, dataDir, command, config, wasRunning, browser, secretsMade,
                 commandsRun, cliFrame>>

\* lines 282-297
StartPull(ok) == StartStep("pull", ok, "network")

\* lines 300-303
StartNetwork(ok) == StartStep("network", ok, "cleanup")

\* lines 306-309: old containers removed, data directory made
StartCleanup ==
  /\ cpc = "cleanup"
  /\ containers' = cleanupExistingContainers(containers)
  /\ dataDir' = TRUE
  /\ Did("cleanup", TRUE)
  /\ cpc' = "postgres"
  /\ UNCHANGED <<configFile, command, config, wasRunning, exitCode, browser, secretsMade,
                 commandsRun, cliFrame>>

\* lines 312-339
StartPostgres(ok) == StartContainer("postgres", ok, "wait-postgres", DB_CONTAINER, "5432")

\* lines 342-345
StartWaitPostgres(ready) == StartStep("wait-postgres", ready, "migrations")

\* lines 348-368
StartMigrations(ok) == StartStep("migrations", ok, "realtime")

\* lines 386-404
StartRealtime(ok) ==
  StartContainer("realtime", ok, "app", REALTIME_CONTAINER, "3002")

\* lines 430-448: the app is published on the configured port
StartApp(ok) == StartContainer("app", ok, "wait-app", APP_CONTAINER, config.port)

\* an app wait whose result is not looked at before the browser opens
StartWaitAppOpensAnyway(appReady) ==
  /\ cpc = "wait-app"
  /\ Did("wait-app", appReady)
  /\ IF command.options.open
     THEN cpc' = "browser" /\ UNCHANGED exitCode
     ELSE Ends(0)
  /\ UNCHANGED <<configFile, dataDir, containers, command, config, wasRunning, browser,
                 secretsMade, commandsRun, cliFrame>>

\* lines 451-467: startSim goes on whether or not the app answered
StartWaitApp(appReady) ==
  /\ cpc = "wait-app"
  /\ Did("wait-app", appReady)
  /\ IF command.options.open /\ appReady
     THEN cpc' = "browser" /\ UNCHANGED exitCode
     ELSE Ends(0)
  /\ UNCHANGED <<configFile, dataDir, containers, command, config, wasRunning, browser,
                 secretsMade, commandsRun, cliFrame>>

\* lines 235-248 and 465-468: a browser that cannot be opened is passed over
StartOpenBrowser(opened) ==
  /\ cpc = "browser"
  /\ Did("browser", opened)
  /\ browser' = IF opened THEN config.port ELSE browser
  /\ Ends(0)
  /\ UNCHANGED <<configFile, dataDir, containers, command, config, wasRunning,
                 secretsMade, commandsRun, cliFrame>>

\* lines 474-485
StopCommand ==
  /\ cpc = "stop"
  /\ IF isRunning(containers)
     THEN containers' = cleanupExistingContainers(containers) /\ Did("stop", TRUE)
     ELSE UNCHANGED <<containers, steps>>
  /\ Ends(0)
  /\ UNCHANGED <<configFile, dataDir, command, config, wasRunning, browser, secretsMade,
                 commandsRun, cliFrame>>

\* lines 490-508
LogsCommand ==
  /\ cpc = "logs"
  /\ Ends(0)
  /\ UNCHANGED <<configFile, dataDir, containers, command, config, wasRunning, steps,
                 browser, secretsMade, commandsRun, cliFrame>>

\* lines 513-537: the configuration is loaded, and written back, when the app runs
StatusCommand ==
  /\ cpc = "status"
  /\ IF isRunning(containers)
     THEN LET loaded == loadConfig(configFile, "", secretsMade, commandsRun) IN
          /\ config' = loaded.config
          /\ configFile' = loaded.config
          /\ secretsMade' = loaded.made
     ELSE UNCHANGED <<config, configFile, secretsMade>>
  /\ Ends(0)
  /\ UNCHANGED <<dataDir, containers, command, wasRunning, steps, browser, commandsRun,
                 cliFrame>>

\* lines 614-629
ConfigCommand ==
  /\ cpc = "config"
  /\ IF configFile = NoValue
     THEN UNCHANGED <<config, configFile, secretsMade>>
     ELSE LET loaded == loadConfig(configFile, "", secretsMade, commandsRun) IN
          /\ config' = loaded.config
          /\ configFile' = loaded.config
          /\ secretsMade' = loaded.made
  /\ Ends(0)
  /\ UNCHANGED <<dataDir, containers, command, wasRunning, steps, browser, commandsRun,
                 cliFrame>>

\* lines 545-552: when the app runs the configuration is loaded and Sim is
\* stopped, before any image is pulled
UpgradeStop ==
  /\ cpc = "upgrade"
  /\ wasRunning' = isRunning(containers)
  /\ IF isRunning(containers)
     THEN LET loaded == loadConfig(configFile, "", secretsMade, commandsRun) IN
          /\ config' = loaded.config
          /\ configFile' = loaded.config
          /\ secretsMade' = loaded.made
          /\ containers' = cleanupExistingContainers(containers)
          /\ Did("stop", TRUE)
     ELSE UNCHANGED <<config, configFile, secretsMade, containers, steps>>
  /\ cpc' = "upgrade-pull"
  /\ UNCHANGED <<dataDir, command, exitCode, browser, commandsRun, cliFrame>>

\* lines 555-576: the images are pulled, and Sim is started again with the
\* loaded port when it was running
UpgradePull(ok) ==
  /\ cpc = "upgrade-pull"
  /\ Did("upgrade-pull", ok)
  /\ IF ~ok
     THEN Ends(1) /\ UNCHANGED command
     ELSE IF wasRunning /\ config # NoValue
     THEN /\ command' = [command EXCEPT !.options = StartOptions(config.port, FALSE, FALSE)]
          /\ cpc' = "start"
          /\ UNCHANGED exitCode
     ELSE Ends(0) /\ UNCHANGED command
  /\ UNCHANGED <<configFile, dataDir, containers, config, wasRunning, browser,
                 secretsMade, commandsRun, cliFrame>>

\* lines 582-598: nothing without --yes; with it Sim is stopped when it runs
ResetStop ==
  /\ cpc = "reset"
  /\ IF ~command.yes
     THEN Ends(0) /\ UNCHANGED <<containers, steps>>
     ELSE /\ IF isRunning(containers)
             THEN containers' = cleanupExistingContainers(containers) /\ Did("stop", TRUE)
             ELSE UNCHANGED <<containers, steps>>
          /\ cpc' = "reset-remove"
          /\ UNCHANGED exitCode
  /\ UNCHANGED <<configFile, dataDir, command, config, wasRunning, browser, secretsMade,
                 commandsRun, cliFrame>>

\* a removal that leaves the configuration file in place
ResetRemoveDataOnly(failsAt) ==
  /\ cpc = "reset-remove"
  /\ dataDir' = IF failsAt = "data" THEN dataDir ELSE FALSE
  /\ UNCHANGED configFile
  /\ Did("remove", failsAt = "")
  /\ Ends(IF failsAt = "" THEN 0 ELSE 1)
  /\ UNCHANGED <<containers, command, config, wasRunning, browser, secretsMade,
                 commandsRun, cliFrame>>

\* lines 600-608: rm -rf of the data directory, then rm -f of the
\* configuration file; failsAt names the removal that fails, "" when none does
ResetRemove(failsAt) ==
  /\ cpc = "reset-remove"
  /\ dataDir' = IF failsAt = "data" THEN dataDir ELSE FALSE
  /\ configFile' = IF failsAt = "" THEN NoValue ELSE configFile
  /\ Did("remove", failsAt = "")
  /\ Ends(IF failsAt = "" THEN 0 ELSE 1)
  /\ UNCHANGED <<containers, command, config, wasRunning, browser, secretsMade,
                 commandsRun, cliFrame>>

CliNext ==
  \/ \E cmd \in Commands : Invoke(cmd)
  \/ \E dockerRunning \in BOOLEAN : StartCheckDocker(dockerRunning)
  \/ \E ok \in BOOLEAN : StartPull(ok)
  \/ \E ok \in BOOLEAN : StartNetwork(ok)
  \/ StartCleanup
  \/ \E ok \in BOOLEAN : StartPostgres(ok)
  \/ \E ready \in BOOLEAN : StartWaitPostgres(ready)
  \/ \E ok \in BOOLEAN : StartMigrations(ok)
  \/ \E ok \in BOOLEAN : StartRealtime(ok)
  \/ \E ok \in BOOLEAN : StartApp(ok)
  \/ \E appReady \in BOOLEAN : StartWaitApp(appReady)
  \/ \E opened \in BOOLEAN : StartOpenBrowser(opened)
  \/ StopCommand
  \/ LogsCommand
  \/ StatusCommand
  \/ ConfigCommand
  \/ UpgradeStop
  \/ \E ok \in BOOLEAN : UpgradePull(ok)
  \/ ResetStop
  \/ \E failsAt \in {"", "data", "config"} : ResetRemove(failsAt)

CliSpec == CliInit /\ [][CliNext]_vars

(***************************************************************************)
(* The profiler endpoint: requests that interleave at their await points   *)
(* over the module-level sample buffer.                                    *)
(***************************************************************************)
MAX_SAMPLES == 100

\* number of requests
MaxRequests == 3

\* process.memoryUsage().heapUsed
HeapReadings == {1, 2}

\* the action of a POST body; "" for a body without one or that is not JSON
BodyActions == {"", "track", "snapshot", "gc", "reset", "other"}

\* the buffer after n GET requests, one per millisecond
Prefilled(n) == [k \in 1..n |-> [timestamp |-> k, heapUsed |-> 1]]

\* buffer lengths at the start: empty, one sample, and around the maximum
PrefilledLengths == {0, 1, MAX_SAMPLES - 2, MAX_SAMPLES - 1, MAX_SAMPLES}

ProfilerInit ==
  /\ \E n \in PrefilledLengths :
       /\ memorySamples = Prefilled(n)
       /\ recorded = Prefilled(n)
       /\ ptime = n
  /\ requests = <<>>
  /\ effects = <<>>
  /\ E2B_ENABLED = "false"
  /\ NoInvocation
  /\ NoInvocations
  /\ NoResolverRun
  /\ NoToolCall
  /\ NoCommand

profilerFrame == <<E2B_ENABLED, invocationVars, concVars, resolverVars, toolVars, cliVars>>

\* a request as the handler holds it
Request(method, authorized, action, at, heapUsed, response) ==
  [method |-> method, authorized |-> authorized, action |-> action, pc |-> at,
   heapUsed |-> heapUsed, response |-> response]

\* NextResponse.json(body, { status })
Response(status, growth, held) == [status |-> status, growth |-> growth, held |-> held]

\* lines 182-204: the growth of a GET response, before formatting; held is the
\* length of the buffer it was computed from
Growth(samples) ==
  IF Len(samples) >= 2
  THEN [samples |-> Len(samples),
        periodMs |-> samples[Len(samples)].timestamp - samples[1].timestamp,
        heapGrowthBytes |-> samples[Len(samples)].heapUsed - samples[1].heapUsed]
  ELSE Null

\* what a request started, for the record
Effect(i, what) == effects' = Append(effects, [request |-> i, effect |-> what])

\* a GET that does not look at the result of the key check
GETUnchecked(authorized, heapUsed) ==
  /\ Len(requests) < MaxRequests
  /\ requests' = Append(requests, Request("GET", authorized, "", "v8", heapUsed, NoValue))
  /\ UNCHANGED <<memorySamples, recorded, ptime, effects, profilerFrame>>

\* lines 150-159: the key check, the memory reading, up to the import of v8
GET(authorized, heapUsed) ==
  /\ Len(requests) < MaxRequests
  /\ requests' =
       Append(requests,
              IF ~authorized
              THEN Request("GET", FALSE, "", "Done", 0, Response(401, Null, 0))
              ELSE Request("GET", TRUE, "", "v8", heapUsed, NoValue))
  /\ UNCHANGED <<memorySamples, recorded, ptime, effects, profilerFrame>>

\* a sample pushed without dropping the oldest one
GETRecordKeepsAll(i, elapsed) ==
  /\ i \in DOMAIN requests
  /\ requests[i].pc = "v8"
  /\ LET sample == [timestamp |-> ptime + elapsed, heapUsed |-> requests[i].heapUsed]
         pushed == Append(memorySamples, sample)
     IN /\ memorySamples' = pushed
        /\ recorded' = Append(recorded, sample)
        /\ requests' = [requests EXCEPT ![i].pc = "Done",
                          ![i].response = Response(200, Growth(pushed), Len(pushed))]
        /\ ptime' = ptime + elapsed
        /\ Effect(i, "sample")
  /\ UNCHANGED profilerFrame

\* lines 161-245: the sample is pushed with the time of the push, the oldest
\* one dropped above MAX_SAMPLES, the growth computed and the answer given
GETRecord(i, elapsed) ==
  /\ i \in DOMAIN requests
  /\ requests[i].pc = "v8"
  /\ LET sample == [timestamp |-> ptime + elapsed, heapUsed |-> requests[i].heapUsed]
         pushed == Append(memorySamples, sample)
         kept == IF Len(pushed) > MAX_SAMPLES THEN Tail(pushed) ELSE pushed
     IN /\ memorySamples' = kept
        /\ recorded' = Append(recorded, sample)
        /\ requests' = [requests EXCEPT ![i].pc = "Done",
                          ![i].response = Response(200, Growth(kept), Len(kept))]
        /\ ptime' = ptime + elapsed
        /\ Effect(i, "sample")
  /\ UNCHANGED profilerFrame

\* lines 250-256: the key check, up to the reading of the body, which a
\* refused request never gets to
POST(authorized, action) ==
  /\ Len(requests) < MaxRequests
  /\ requests' =
       Append(requests,
              IF ~authorized
              THEN Request("POST", FALSE, "", "Done", 0, Response(401, Null, 0))
              ELSE Request("POST", TRUE, action, "json", 0, NoValue))
  /\ UNCHANGED <<memorySamples, recorded, ptime, effects, profilerFrame>>

\* line 257
ActionOf(req) == StrOr(req.action, "track")

\* lines 256-378: the action of the body; track and snapshot go on after
\* their imports, gc (when the runtime exposes it) and reset act at once
POSTAction(i, exposed) ==
  /\ i \in DOMAIN requests
  /\ requests[i].pc = "json"
  /\ LET action == ActionOf(requests[i]) IN
       IF action \in {"track", "snapshot"}
       THEN /\ requests' = [requests EXCEPT ![i].pc = action]
            /\ UNCHANGED <<memorySamples, recorded, effects>>
       ELSE IF action = "gc"
       THEN /\ requests' = [requests EXCEPT ![i].pc = "Done",
                              ![i].response = Response(200, Null, 0)]
            /\ IF exposed THEN Effect(i, "gc") ELSE UNCHANGED effects
            /\ UNCHANGED <<memorySamples, recorded>>
       ELSE IF action = "reset"
       THEN /\ memorySamples' = <<>>
            /\ recorded' = <<>>
            /\ requests' = [requests EXCEPT ![i].pc = "Done",
                              ![i].response = Response(200, Null, 0)]
            /\ Effect(i, "reset")
       ELSE /\ requests' = [requests EXCEPT ![i].pc = "Done",
                              ![i].response = Response(400, Null, 0)]
            /\ UNCHANGED <<memorySamples, recorded, effects>>
  /\ UNCHANGED <<ptime, profilerFrame>>

\* lines 265-315: the sampling is started and answered after its duration,
\* unless the inspector is not available
POSTTrack(i, available) ==
  /\ i \in DOMAIN requests
  /\ requests[i].pc = "track"
  /\ requests' = [requests EXCEPT ![i].pc = "Done", ![i].response = Response(200, Null, 0)]
  /\ IF available THEN Effect(i, "track") ELSE UNCHANGED effects
  /\ UNCHANGED <<memorySamples, recorded, ptime, profilerFrame>>

\* lines 319-347: the heap snapshot is written, unless that fails
POSTSnapshot(i, written) ==
  /\ i \in DOMAIN requests
  /\ requests[i].pc = "snapshot"
  /\ requests' = [requests EXCEPT ![i].pc = "Done", ![i].response = Response(200, Null, 0)]
  /\ IF written THEN Effect(i, "snapshot") ELSE UNCHANGED effects
  /\ UNCHANGED <<memorySamples, recorded, ptime, profilerFrame>>

ProfilerNext ==
  \/ \E authorized \in BOOLEAN, heapUsed \in HeapReadings : GET(authorized, heapUsed)
  \/ \E i \in 1..MaxRequests, elapsed \in {0, 1} : GETRecord(i, elapsed)
  \/ \E authorized \in BOOLEAN, action \in BodyActions : POST(authorized, action)
  \/ \E i \in 1..MaxRequests, exposed \in BOOLEAN : POSTAction(i, exposed)
  \/ \E i \in 1..MaxRequests, available \in BOOLEAN : POSTTrack(i, available)
  \/ \E i \in 1..MaxRequests, written \in BOOLEAN : POSTSnapshot(i, written)

ProfilerSpec == ProfilerInit /\ [][ProfilerNext]_vars

(***************************************************************************)
(* The resolver on its own: resolveCodeVariables applied, pass by pass, to *)
(* code texts put together from pieces of reference syntax                 *)
(***************************************************************************)
Fragments ==
  { "<variable.a-b>", "<variable.a.b>", "<variable.A-B>", "<variable.my var>",
    "<variable.myvar>", "<variable.",
    "{{FOO}}", "{{n}}", "{{a-b}}", "{{a.b}}", "{{", "}}",
    "<a.b>", "<a_b>", "<", ">" }

\* largest number of fragments of a code text
MaxFrags == 3

RECURSIVE CodesOfLength(_)
CodesOfLength(n) ==
  IF n = 0 THEN {""}
  ELSE {f \o c : f \in Fragments, c \in CodesOfLength(n - 1)}

Codes == UNION {CodesOfLength(n) : n \in 1..MaxFrags}

ResolverData ==
  { Data(EmptyObj, EmptyObj, EmptyObj, EmptyObj, <<>>),
    Data(Obj(("FOO" :> Str("p")) @@ ("n" :> Num(0)) @@ ("a.b" :> Str("pa"))
               @@ ("a" :> Obj([b |-> Str("pv")])) @@ ("a_b" :> Str("flat"))),
         Obj(("FOO" :> Str("bar")) @@ ("a-b" :> Str("e1")) @@ ("a.b" :> Str(""))),
         Obj([id1 |-> Obj([out |-> Str("r")])]),
         Obj([blk |-> Str("id1")]),
         << [name |-> "a-b", type |-> "string", value |-> Str("first")],
            [name |-> "a.b", type |-> "number", value |-> Str("42")],
            [name |-> "my var", type |-> "boolean", value |-> Str("true")] >>) }

\* bindings left from an earlier call
ResolverStartStale ==
  [resolvedCode |-> source.code, contextVariables |-> ("__var_FOO" :> Str("bar"))]

\* lines 194-195
ResolverStart == [resolvedCode |-> source.code, contextVariables |-> <<>>]

\* resolvedCode and contextVariables after the passes that have run
Resolving == IF history = <<>> THEN ResolverStart ELSE history[Len(history)].output

PassEntry(pass, matches, input, output) ==
  [pass |-> pass, matches |-> matches, input |-> input, output |-> output]

ResolverInit ==
  /\ source \in [code : Codes, data : ResolverData]
  /\ history = <<>>
  /\ E2B_ENABLED = "false"
  /\ NoInvocation
  /\ NoInvocations
  /\ NoPeers

\* line 197
WorkflowPass ==
  /\ Len(history) = 0
  /\ history' = Append(history,
                       PassEntry("workflow", variableMatches(Resolving.resolvedCode, 1),
                                 Resolving,
                                 resolveWorkflowVariables(Resolving,
                                                          source.data.workflowVariables)))
  /\ UNCHANGED <<source, E2B_ENABLED, peerVars, invocationVars, concVars>>

\* line 198
EnvironmentPass ==
  /\ Len(history) = 1
  /\ history' = Append(history,
                       PassEntry("environment", envVarMatches(Resolving.resolvedCode, 1),
                                 Resolving,
                                 resolveEnvironmentVariables(Resolving,
                                                             ExecutionParams(source.data.params),
                                                             source.data.envVars)))
  /\ UNCHANGED <<source, E2B_ENABLED, peerVars, invocationVars, concVars>>

\* lines 199-205
TagPass ==
  /\ Len(history) = 2
  /\ history' = Append(history,
                       PassEntry("tag", tagMatches(Resolving.resolvedCode, 1),
                                 Resolving,
                                 resolveTagVariables(Resolving,
                                                     ExecutionParams(source.data.params),
                                                     source.data.blockData,
                                                     source.data.blockNameMapping)))
  /\ UNCHANGED <<source, E2B_ENABLED, peerVars, invocationVars, concVars>>

ResolverNext == WorkflowPass \/ EnvironmentPass \/ TagPass

ResolverSpec == ResolverInit /\ [][ResolverNext]_vars

(***************************************************************************)
(* The resolver on tag references: the value of a reference is put at each *)
(* of the three places resolveTagVariables looks it up, params, blockData  *)
(* and the block blockNameMapping names                                    *)
(***************************************************************************)
TagFragments == { "<blk.out>", "<Blk.out>", "<a_b>", "<" }

\* largest number of fragments of a code text of tags
MaxTagFrags == 2

RECURSIVE TagCodesOfLength(_)
TagCodesOfLength(n) ==
  IF n = 0 THEN {""}
  ELSE {f \o c : f \in TagFragments, c \in TagCodesOfLength(n - 1)}

TagCodes == UNION {TagCodesOfLength(n) : n \in 1..MaxTagFrags}

\* the values a place can hold; s tells the places apart
TagValues(s) == {Str(s), Num(0), Bool(FALSE), Null, Str(""), Undefined}

\* pv is params.blk.out and params.a_b, bv is blockData.blk.out and
\* blockData.a_b, mv is out of the block the name blk is mapped to
TagDataOf(pv, bv, mv) ==
  Data(Obj(("blk" :> Obj([out |-> pv])) @@ ("a_b" :> pv)),
       EmptyObj,
       Obj(("blk" :> Obj([out |-> bv])) @@ ("a_b" :> bv) @@ ("id1" :> Obj([out |-> mv]))),
       Obj([blk |-> Str("id1")]),
       <<>>)

TagData ==
  {TagDataOf(pv, bv, mv) :
     pv \in TagValues("pv"), bv \in {Str("bv"), Num(0), Undefined}, mv \in TagValues("mv")}

TagInit ==
  /\ source \in [code : TagCodes, data : TagData]
  /\ history = <<>>
  /\ E2B_ENABLED = "false"
  /\ NoInvocation
  /\ NoInvocations
  /\ NoPeers

TagSpec == TagInit /\ [][ResolverNext]_vars

(***************************************************************************)
(* Properties                                                              *)
(***************************************************************************)
IsDelegationSignal(o) ==
  /\ o # NoValue
  /\ o.kind = "thrown"
  /\ MessageOf(o.error) = Str(USE_HTTP_ROUTE)

IsFailureEnvelope(o) ==
  /\ o # NoValue
  /\ o.kind = "returned"
  /\ ~o.value.success
  /\ o.value.output.result = Null

GateEvaluated == pc \notin {"Pending", "Resolved"}

\* no context, no compiled script, no user code
NothingLocal == vmContext = NoValue /\ script = NoValue /\ us = "idle"

\* the branch the invocation took at the gate
ObservedDecision ==
  IF pc = "Done" /\ vmContext = NoValue
  THEN (IF IsDelegationSignal(outcome) THEN "delegate" ELSE "refuse")
  ELSE "local"

\* the stdout buffer after the log steps before step i of a program
RECURSIVE LoggedBefore(_, _)
LoggedBefore(program, i) ==
  IF i <= 1 THEN ""
  ELSE LoggedBefore(program, i - 1)
         \o (IF i - 1 <= Len(program) /\ program[i - 1].op = "log"
             THEN ConsoleLine(program[i - 1].level, FormatArgs(program[i - 1].args).s)
             ELSE "")

\* C1: an invocation that ends by raising the delegation signal has created no
\* vm context, compiled no script and run no user code.
C1_DelegationBeforeContext ==
  IsDelegationSignal(outcome) => NothingLocal

\* C2: executeFunction rejects only with the delegation signal raised by the
\* gate; after a compile error or a value thrown by the user script it
\* resolves with a failure envelope whose error is a non-empty string.
C2_OnlyDelegationRejects ==
  pc = "Done" =>
    /\ outcome.kind = "thrown" => IsDelegationSignal(outcome)
    /\ (thrown # NoValue \/ (vmContext # NoValue /\ ~request.script.compiles)) =>
         /\ IsFailureEnvelope(outcome)
         /\ outcome.value.error.t = "string"
         /\ outcome.value.error.s # ""

\* C3: an invocation is never still unsettled after its deadline, whatever
\* the user script awaits or does after its first await.
C3_SettledByDeadline ==
  pc \in {"Running", "Awaiting"} => now - startTime <= request.timeout

\* a loop entered before the first await, inside runInContext
SyncLoop == pc = "Running" /\ us = "loop"

TimedOutWithStdout ==
  /\ pc = "Done"
  /\ IsFailureEnvelope(outcome)
  /\ outcome.value.error = Str("Script execution timed out after "
                                 \o NumToString(request.timeout) \o "ms")
  /\ outcome.value.output.stdout =
       cleanStdout(LoggedBefore(request.script.program, ip))

\* C4: a script that loops synchronously forever is interrupted when the
\* timeout elapses: the loop never outlives the deadline, at the deadline the
\* interruption is the step that is taken, and the invocation then ends with
\* a timeout failure envelope whose stdout holds every line logged before the
\* interruption.
C4_SyncLoopInterrupted ==
  /\ SyncLoop => /\ now - startTime <= request.timeout
                 /\ now - startTime = request.timeout => ENABLED VmTimeout
                 /\ ENABLED (Tick \/ VmTimeout)
  /\ (us = "interrupted" /\ CurrentStep.op = "loop") => TimedOutWithStdout

C4_Witness ==
  /\ us = "interrupted"
  /\ CurrentStep.op = "loop"
  /\ ip > 1
  /\ pc = "Done"
  /\ outcome.value.output.stdout # ""

\* C5: a Python request always ends at the gate with the delegation signal:
\* no failure envelope, no local execution.
C5_PythonAlwaysDelegates ==
  (Lang(request.language) = CodeLanguage.Python /\ GateEvaluated) =>
    /\ pc = "Done"
    /\ IsDelegationSignal(outcome)
    /\ vmContext = NoValue

\* C6: for a Python request no vm context is created and no script is
\* compiled or run.
C6_PythonNeverLocal ==
  Lang(request.language) = CodeLanguage.Python => NothingLocal

\* import at the start of a line or require( with a string argument in the source
SourceHasImport(code) == ImportAtLineStart(code, 1) \/ RequireCall(code, 1)

\* C7: a JavaScript request whose source has an import or a require call
\* raises the delegation signal and is never compiled or run in-process.
C7_ImportAlwaysDelegates ==
  (/\ Lang(request.language) = CodeLanguage.JavaScript
   /\ SourceHasImport(request.script.code)
   /\ GateEvaluated) =>
    /\ IsDelegationSignal(outcome)
    /\ NothingLocal

\* the decision of the gate for a request, computed as executeFunction does
GateDecision(req, e2b) ==
  LET lang == Lang(req.language)
      res == resolveCodeVariables(req.script.code, ExecutionParams(req.data.params),
                                  req.data.envVars, req.data.blockData,
                                  req.data.blockNameMapping, req.data.workflowVariables)
      error == GateError(lang, isTruthy(e2b), req.isCustomTool,
                         hasImports(lang, res.resolvedCode))
  IN IF error = NoValue THEN "local"
     ELSE IF error.message = USE_HTTP_ROUTE THEN "delegate"
     ELSE "refuse"

\* C8: the decision depends only on the code, the language, the sandbox flag
\* and isCustomTool: every request that differs from this one only in params,
\* envVars, blockData, blockNameMapping and workflowVariables gets the decision
\* this one got, and the resolver has not run when delegation is chosen.
C8_DecisionOnUnresolvedCode ==
  GateEvaluated =>
    /\ \A d \in DataSets :
         GateDecision([request EXCEPT !.data = d], E2B_ENABLED) = ObservedDecision
    /\ ObservedDecision = "delegate" => codeResolution = NoValue

\* C9: with the sandbox enabled and isCustomTool false, a Python request or a
\* request with a detected import raises the delegation signal at the gate; a
\* JavaScript request (an unrecognized language included) without a detected
\* import proceeds to local execution whatever the two flags are.
C9_DecisionTable ==
  GateEvaluated =>
    LET lang == Lang(request.language)
        imports == hasImports(lang, codeResolution.resolvedCode)
    IN /\ (/\ isTruthy(E2B_ENABLED)
           /\ ~request.isCustomTool
           /\ (lang = CodeLanguage.Python \/ imports)) =>
             (IsDelegationSignal(outcome) /\ NothingLocal)
       /\ (lang = CodeLanguage.JavaScript /\ ~imports) =>
             ObservedDecision = "local"

C9_Witness ==
  /\ request.language = "ruby"
  /\ isTruthy(E2B_ENABLED)
  /\ ~request.isCustomTool
  /\ ~hasImports(CodeLanguage.JavaScript, request.script.code)
  /\ pc = "GatePassed"

\* C10: after the user script threw or its promise rejected, the stdout of the
\* failure envelope is the lines logged before the failure, in call order,
\* followed by the [ERROR] line the wrapper writes for the thrown value.
C10_StdoutKeptWithErrorLine ==
  (pc = "Done" /\ thrown # NoValue /\ IsFailureEnvelope(outcome)) =>
    /\ FormatArgs(<<thrown>>).ok
    /\ outcome.value.output.stdout =
         cleanStdout(LoggedBefore(request.script.program, ip)
                       \o ConsoleLine("error", FormatArgs(<<thrown>>).s))

IsSuccessEnvelope(o) ==
  /\ o # NoValue
  /\ o.kind = "returned"
  /\ o.value.success
  /\ "error" \notin DOMAIN o.value

\* the value the script returns at step i of a program
ReturnedAt(program, i) ==
  IF i <= Len(program) /\ program[i].op = "return" THEN program[i].value ELSE Undefined

\* C11: when the script returned, the outcome is success true without an
\* error, its result is the returned value, and its stdout is the buffer (one
\* line per console call in call order, prefixed by level, each ended by a
\* newline) without its last newline and otherwise unchanged.
C11_SuccessEnvelope ==
  (pc = "Done" /\ result # NoValue /\ result.state = "fulfilled") =>
    LET buffer == LoggedBefore(request.script.program, ip)
    IN /\ IsSuccessEnvelope(outcome)
       /\ outcome.value.output.result = result.value
       /\ CurrentStep.op = "return" =>
            outcome.value.output.result = ReturnedAt(request.script.program, ip)
       /\ stdout = buffer
       /\ IF buffer = "" THEN outcome.value.output.stdout = ""
          ELSE outcome.value.output.stdout \o "\n" = buffer

C11_Witness ==
  /\ pc = "Done"
  /\ IsSuccessEnvelope(outcome)
  /\ outcome.value.output.result = Num(5)
  /\ outcome.value.output.stdout = "[WARN]  y \nx\n"

\* the state of the invocation in the terms of the state machine
\* Pending, Resolving, ContextBuilt, Running, Completed | Failed | TimedOut;
\* Rejected is the end of a call whose promise rejects
Phase ==
  CASE pc = "Pending" -> "Pending"
    [] pc \in {"Resolved", "GatePassed"} -> "Resolving"
    [] pc \in {"ContextBuilt", "Compiled"} -> "ContextBuilt"
    [] pc \in {"Running", "Awaiting"} -> "Running"
    [] pc = "Done" /\ outcome.kind = "thrown" -> "Rejected"
    [] pc = "Done" /\ outcome.kind = "returned" /\ outcome.value.success -> "Completed"
    [] pc = "Done" /\ outcome.kind = "returned" /\ ~outcome.value.success ->
         (IF us = "interrupted" THEN "TimedOut" ELSE "Failed")
    [] OTHER -> "Idle"

TerminalPhases == {"Completed", "Failed", "TimedOut", "Rejected"}

\* the arrows of the state machine of the specification
DiagramSteps ==
  {<<"Pending", "Resolving">>, <<"Resolving", "ContextBuilt">>,
   <<"ContextBuilt", "Running">>}
    \cup {<<"Running", t>> : t \in TerminalPhases}

\* the ends the checks before the context and the compilation take
EarlyEnds ==
  {<<"Resolving", "Failed">>, <<"Resolving", "Rejected">>, <<"ContextBuilt", "Failed">>}

\* C13 as stated: the phases are visited in the order of the diagram, a
\* terminal phase is entered only from Running, and a terminal phase is never
\* left.
C13_TerminalOnlyFromRunning ==
  [][/\ (Phase' # Phase) => (<<Phase, Phase'>> \in DiagramSteps)
     /\ (Phase \in TerminalPhases) => (Phase' = Phase /\ outcome' = outcome)]_vars

\* C13 (amended): the phases are visited in the order of the diagram; a
\* terminal phase is entered from Running, from Resolving when the policy
\* checks refuse or delegate, or from ContextBuilt when the compilation fails
\* (then it is Failed); a terminal phase is never left and the outcome never
\* changes.
C13_OrderedPhases ==
  [][/\ (Phase' # Phase) => (<<Phase, Phase'>> \in DiagramSteps \cup EarlyEnds)
     /\ (Phase \in TerminalPhases) => (Phase' = Phase /\ outcome' = outcome)
     /\ (Phase = "Resolving" /\ Phase' = "Rejected") => IsDelegationSignal(outcome')]_vars

\* Failed was entered from ContextBuilt: the context exists, no script was compiled
C13_Witness ==
  /\ Phase = "Failed"
  /\ vmContext # NoValue
  /\ script = NoValue

\* names that give access to modules, the process or the file system
ExcludedNames ==
  {"require", "import", "process", "module", "fs", "child_process", "setInterval"}

BindingPrefixes == {"__variable_", "__var_", "__tag_"}

HasBindingPrefix(name) == \E prefix \in BindingPrefixes : StartsAt(name, 1, prefix)

\* C14: the keys of the context are exactly the allow-list and the bindings
\* of the resolver; none of the excluded names is a key; every binding is
\* named under one of the three prefixes and every allow-listed name still
\* holds its capability.
C14_ContextKeys ==
  vmContext # NoValue =>
    /\ DOMAIN vmContext = AllowList \cup DOMAIN codeResolution.contextVariables
    /\ DOMAIN vmContext \cap ExcludedNames = {}
    /\ \A k \in DOMAIN codeResolution.contextVariables :
         /\ HasBindingPrefix(k)
         /\ vmContext[k] = codeResolution.contextVariables[k]
    /\ \A k \in AllowList : vmContext[k] = Capability(k)

\* a reference named as a capability is bound next to it
C14_Witness ==
  /\ vmContext # NoValue
  /\ "__var_console" \in DOMAIN vmContext
  /\ vmContext["console"] = Capability("console")

\* the three passes give what resolveCodeVariables gives
ResolverPassesAgree ==
  Len(history) = 3 =>
    Resolving = resolveCodeVariables(source.code, ExecutionParams(source.data.params),
                                     source.data.envVars, source.data.blockData,
                                     source.data.blockNameMapping,
                                     source.data.workflowVariables)

PassOrder == <<"workflow", "environment", "tag">>

\* C15: the passes run in the order workflow variables, template references,
\* tags, and every reference a later pass matches is text of the input code:
\* it holds no identifier an earlier pass inserted and does not span a place
\* where an earlier pass deleted a reference.
C15_NoRematch ==
  \A k \in 1..Len(history) :
    /\ history[k].pass = PassOrder[k]
    /\ k > 1 => \A j \in 1..Len(history[k].matches) :
                  Includes(source.code, history[k].matches[j])

\* the identifier a pass generates for a reference it matched
SafeNameOf(pass, match) ==
  CASE pass = "workflow" -> workflowSafeVarName(VariableNameOf(match))
    [] pass = "environment" -> envSafeVarName(EnvNameOf(match))
    [] pass = "tag" -> tagSafeVarName(TagNameOf(match))

\* the identifiers of the references a pass matched
SafeNamesOf(entry) ==
  {SafeNameOf(entry.pass, entry.matches[j]) : j \in 1..Len(entry.matches)}

\* C16: the identifiers generated for the references of one pass differ from
\* the identifiers generated for the references of every other pass, and a
\* binding made by a pass is still there, with its value, after every later
\* pass.
C16_DistinctAcrossPasses ==
  \A k1, k2 \in 1..Len(history) :
    k1 < k2 =>
      /\ SafeNamesOf(history[k1]) \cap SafeNamesOf(history[k2]) = {}
      /\ \A key \in DOMAIN history[k1].output.contextVariables :
           /\ key \in DOMAIN history[k2].output.contextVariables
           /\ history[k2].output.contextVariables[key]
                = history[k1].output.contextVariables[key]

\* the three passes have each bound a reference named a-b, a.b or a_b
C16_Witness ==
  /\ Len(history) = 3
  /\ {"__variable_a_b", "__var_a_b", "__tag_a_b"} \subseteq DOMAIN Resolving.contextVariables

\* the value a pass looks up for a reference it matched
ResolvedValueOf(pass, match) ==
  CASE pass = "workflow" ->
         LET found == FindVariable(source.data.workflowVariables, VariableNameOf(match), 1)
         IN IF found = 0 THEN Undefined
            ELSE CoerceVariable(source.data.workflowVariables[found])
    [] pass = "environment" ->
         Or(Or(Get(source.data.envVars, EnvNameOf(match)),
               Get(ExecutionParams(source.data.params), EnvNameOf(match))), Str(""))
    [] pass = "tag" ->
         TagValue(TagNameOf(match), ExecutionParams(source.data.params),
                  source.data.blockData, source.data.blockNameMapping)

\* the pass generates an identifier for the reference: a declared workflow
\* variable, any template reference, a tag with a value
Generates(pass, match) ==
  CASE pass = "workflow" ->
         FindVariable(source.data.workflowVariables, VariableNameOf(match), 1) # 0
    [] pass = "environment" -> TRUE
    [] pass = "tag" ->
         ResolvedValueOf(pass, match) \notin {Undefined, Str("")}

\* the references of the pass that generate the identifier id, by index
GeneratorsOf(entry, id) ==
  {j \in 1..Len(entry.matches) :
     /\ Generates(entry.pass, entry.matches[j])
     /\ SafeNameOf(entry.pass, entry.matches[j]) = id}

\* two different reference texts of one pass generate the same identifier
Collide(entry, j1, j2) ==
  /\ j1 < j2
  /\ entry.matches[j1] # entry.matches[j2]
  /\ Generates(entry.pass, entry.matches[j1])
  /\ Generates(entry.pass, entry.matches[j2])
  /\ SafeNameOf(entry.pass, entry.matches[j1]) = SafeNameOf(entry.pass, entry.matches[j2])

Max(S) == CHOOSE x \in S : \A y \in S : y <= x

\* C17: when two different reference texts of one pass generate the same
\* identifier, the pass ends, neither text is left in the code, the
\* identifier is in the code, and the identifier is bound once, to the value
\* looked up for the last of the references that generate it.
C17_LaterBindingWins ==
  \A k \in 1..Len(history) :
    LET entry == history[k]
    IN \A j1, j2 \in 1..Len(entry.matches) :
         Collide(entry, j1, j2) =>
           LET id == SafeNameOf(entry.pass, entry.matches[j1])
               last == entry.matches[Max(GeneratorsOf(entry, id))]
           IN /\ ~Includes(entry.output.resolvedCode, entry.matches[j1])
              /\ ~Includes(entry.output.resolvedCode, entry.matches[j2])
              /\ Includes(entry.output.resolvedCode, id)
              /\ id \in DOMAIN entry.output.contextVariables
              /\ entry.output.contextVariables[id] = ResolvedValueOf(entry.pass, last)

\* <variable.a-b> and <variable.a.b> are both declared and both become
\* __variable_a_b, bound to the value of a.b
C17_Witness ==
  /\ Len(history) = 1
  /\ history[1].matches = <<"<variable.a-b>", "<variable.a.b>">>
  /\ history[1].output.resolvedCode = "__variable_a_b__variable_a_b"
  /\ history[1].output.contextVariables = ("__variable_a_b" :> Num(42))

\* a name without its whitespace and in lower case
NormalizedName(name) == ToLowerCase(StripSpaces(name))

\* the declared variables whose name equals the name of the reference when
\* case and whitespace are ignored, by index
DeclaredFor(match) ==
  {i \in 1..Len(source.data.workflowVariables) :
     NormalizedName(source.data.workflowVariables[i].name)
       = NormalizedName(SubSeq(match, 11, Len(match) - 1))}

\* C18: a reference whose name equals the name of a declared variable, case
\* and whitespace ignored, is resolved to a declared variable of that name:
\* it gets an identifier, which is bound (when no other reference generates
\* the same identifier, to the coerced value of such a variable); it is not
\* dropped.
C18_MatchIgnoresCaseAndSpaces ==
  Len(history) >= 1 =>
    \A j \in 1..Len(history[1].matches) :
      LET match == history[1].matches[j]
          id == SafeNameOf("workflow", match)
      IN DeclaredFor(match) # {} =>
           /\ id \in DOMAIN history[1].output.contextVariables
           /\ Includes(history[1].output.resolvedCode, id)
           /\ GeneratorsOf(history[1], id) \subseteq {j} =>
                \E i \in DeclaredFor(match) :
                  history[1].output.contextVariables[id]
                    = CoerceVariable(source.data.workflowVariables[i])

\* the identifiers the workflow pass generates for its declared references
WorkflowIdentifiers(entry) ==
  {SafeNameOf("workflow", entry.matches[j]) :
     j \in {i \in 1..Len(entry.matches) : Generates("workflow", entry.matches[i])}}

PresentValue(match) ==
  LET name == EnvNameOf(match)
      params == ExecutionParams(source.data.params)
  IN IF name \in DOMAIN source.data.envVars.o THEN source.data.envVars.o[name]
     ELSE IF name \in DOMAIN params.o /\ params.o[name] # Undefined THEN params.o[name]
     ELSE Str("")

\* C20: after the template pass no text of a matched template reference is
\* left in the code, the identifier of each is in the code and is bound, and
\* (when no other reference generates the same identifier) its value is
\* envVars[NAME] when NAME is present in envVars, else params[NAME] when NAME
\* is present in params, else the empty string.
C20_TemplateReferences ==
  Len(history) >= 2 =>
    LET entry == history[2]
    IN \A j \in 1..Len(entry.matches) :
         LET match == entry.matches[j]
             id == SafeNameOf("environment", match)
         IN /\ ~Includes(entry.output.resolvedCode, match)
            /\ Includes(entry.output.resolvedCode, id)
            /\ id \in DOMAIN entry.output.contextVariables
            /\ GeneratorsOf(entry, id) \subseteq {j} =>
                 entry.output.contextVariables[id] = PresentValue(match)

\* the lines the script and the wrapper of an invocation have logged so far
OwnLines(inv) ==
  LoggedBefore(inv.request.script.program, inv.ip)
    \o (IF inv.result # NoValue /\ inv.result.state = "rejected"
           /\ FormatArgs(<<inv.thrown>>).ok
        THEN ConsoleLine("error", FormatArgs(<<inv.thrown>>).s)
        ELSE "")

\* the bindings the resolver makes for each request
BindingsOf ==
  [req \in ConcRequests |->
     resolveCodeVariables(req.script.code, ExecutionParams(req.data.params),
                          req.data.envVars, req.data.blockData,
                          req.data.blockNameMapping,
                          req.data.workflowVariables).contextVariables]

\* the bindings the resolver makes for the request of an invocation
OwnBindings(inv) == BindingsOf[inv.request]

\* C12: with several invocations in flight, the stdout buffer of each started
\* invocation holds exactly the lines of its own script (it is empty when the
\* invocation starts), its bindings and its context come from its own request,
\* and the stdout of its outcome is its own buffer.
C12_InvocationsIsolated ==
  \A i \in DOMAIN invocations :
    LET inv == invocations[i]
    IN /\ (inv.pc # "Pending" /\ inv.outcome = NoValue) =>
            /\ StdoutOf(i) = OwnLines(inv)
            /\ frames[FrameOf(i)].contextVariables = OwnBindings(inv)
       /\ inv.vmContext # NoValue => inv.vmContext = Context(OwnBindings(inv))
       /\ (inv.outcome # NoValue /\ inv.outcome.kind = "returned") =>
            inv.outcome.value.output.stdout = cleanStdout(OwnLines(inv))

\* one invocation has logged and awaits, the other one, of the same request,
\* has run to its end meanwhile
C12_Witness ==
  /\ invocations # <<>>
  /\ invocations[1].request = invocations[2].request
  /\ invocations[1].pc = "Awaiting"
  /\ invocations[1].us = "wait"
  /\ invocations[1].ip > 1
  /\ invocations[2].pc = "Done"
  /\ invocations[2].outcome.value.output.stdout = "p\n[ERROR] q"

\* the first segment of the reference is, case ignored, a key of
\* blockNameMapping whose id is a key of blockData
MapsToBlock(match) ==
  LET tagName == TagNameOf(match)
      mapping == source.data.blockNameMapping
  IN /\ Includes(tagName, ".")
     /\ \E k \in DOMAIN mapping.o :
          /\ ToLowerCase(k) = ToLowerCase(SplitDot(tagName)[1])
          /\ mapping.o[k].t = "string"
          /\ mapping.o[k].s \in DOMAIN source.data.blockData.o

\* the nested value at the path of the reference in blockData[id]
BlockValueOf(match) ==
  LET parts == SplitDot(TagNameOf(match))
      mapping == source.data.blockNameMapping
      k == CHOOSE key \in DOMAIN mapping.o : ToLowerCase(key) = ToLowerCase(parts[1])
  IN getNestedValue(source.data.blockData.o[mapping.o[k].s], JoinDot(Tail(parts)))

\* the truthy value params, else blockData, hold at the whole path
DirectValueOf(match) ==
  Or(getNestedValue(ExecutionParams(source.data.params), TagNameOf(match)),
     getNestedValue(source.data.blockData, TagNameOf(match)))

\* C21 as stated: the value bound for a reference whose first segment maps
\* to a block is the nested value at its path in that block, whatever
\* params and the rest of blockData hold.
C21_TagValueFromBlock ==
  Len(history) = 3 =>
    \A j \in 1..Len(history[3].matches) :
      LET match == history[3].matches[j]
          id == SafeNameOf("tag", match)
          bindings == history[3].output.contextVariables
      IN (MapsToBlock(match) /\ id \in DOMAIN bindings) =>
           bindings[id] = BlockValueOf(match)

\* C21 (amended): for a reference whose first segment maps to a block, a
\* truthy value at the whole path in params, else in blockData, is the value
\* bound; without one, a binding is made exactly when the nested value at
\* the path in the block is neither undefined nor the empty string, and that
\* value is the one bound.
C21_TagValueFromBlockUnlessDirect ==
  Len(history) = 3 =>
    \A j \in 1..Len(history[3].matches) :
      LET match == history[3].matches[j]
          id == SafeNameOf("tag", match)
          bindings == history[3].output.contextVariables
          direct == DirectValueOf(match)
      IN MapsToBlock(match) =>
           IF Truthy(direct)
           THEN id \in DOMAIN bindings /\ bindings[id] = direct
           ELSE /\ id \in DOMAIN bindings <=>
                     BlockValueOf(match) \notin {Undefined, Str("")}
                /\ id \in DOMAIN bindings => bindings[id] = BlockValueOf(match)

\* a reference written in another case than the key of the mapping is bound
\* to the value of the block
C21_Witness ==
  /\ Len(history) = 3
  /\ source.code = "<Blk.out>"
  /\ ~Truthy(DirectValueOf("<Blk.out>"))
  /\ history[3].output.resolvedCode = "__tag_Blk_out"
  /\ history[3].output.contextVariables = ("__tag_Blk_out" :> Str("mv"))

\* the values the places of the lookup hold for a reference: params and
\* blockData at the whole path, and the block its first segment names
LookupsOf(match) ==
  {getNestedValue(ExecutionParams(source.data.params), TagNameOf(match)),
   getNestedValue(source.data.blockData, TagNameOf(match))}
    \cup (IF MapsToBlock(match) THEN {BlockValueOf(match)} ELSE {})

\* C22: a tag reference is substituted (its text is replaced by its
\* identifier, which is bound) if and only if its lookup yields a defined,
\* non-empty value, 0, false and null included; otherwise it stays in the
\* text and creates no binding.
C22_SubstitutedIffDefined ==
  Len(history) = 3 =>
    \A j \in 1..Len(history[3].matches) :
      LET match == history[3].matches[j]
          id == SafeNameOf("tag", match)
          out == history[3].output
      IN IF \E v \in LookupsOf(match) : v # Undefined /\ v # Str("")
         THEN /\ ~Includes(out.resolvedCode, match)
              /\ Includes(out.resolvedCode, id)
              /\ id \in DOMAIN out.contextVariables
         ELSE /\ Includes(out.resolvedCode, match)
              /\ id \notin DOMAIN out.contextVariables

\* none of the three expressions of the resolver matches in the text
NoReference(code) ==
  /\ variableMatches(code, 1) = <<>>
  /\ envVarMatches(code, 1) = <<>>
  /\ tagMatches(code, 1) = <<>>

Unresolved(code) == [resolvedCode |-> code, contextVariables |-> <<>>]

\* C23: for a code text without a reference of any of the three syntaxes,
\* every pass leaves the code as it is and the bindings empty, whatever the
\* data are; and resolving the output of a run that holds no reference any
\* more changes nothing and binds nothing.
C23_NoReferenceNoOp ==
  /\ NoReference(source.code) =>
       /\ Resolving = Unresolved(source.code)
       /\ \A k \in 1..Len(history) :
            history[k].matches = <<>> /\ history[k].output = Unresolved(source.code)
  /\ (Len(history) = 3 /\ NoReference(Resolving.resolvedCode)) =>
       resolveCodeVariables(Resolving.resolvedCode, ExecutionParams(source.data.params),
                            source.data.envVars, source.data.blockData,
                            source.data.blockNameMapping, source.data.workflowVariables)
         = Unresolved(Resolving.resolvedCode)

\* pieces of reference syntax that make no reference, resolved with data
C23_Witness ==
  /\ Len(history) = 3
  /\ source.code = "{{<variable.>"
  /\ source.data.workflowVariables # <<>>
  /\ NoReference(source.code)
  /\ Resolving = Unresolved(source.code)

\* the error of an envelope, undefined when it has none
EnvelopeError(value) == IF "error" \in DOMAIN value THEN value.error ELSE Undefined

IsSkipSignal(o) ==
  /\ o.kind = "thrown"
  /\ o.error = ErrorVal("Error", SKIP_DIRECT_EXECUTION)

\* C28: directExecution throws __SKIP_DIRECT_EXECUTION__ exactly when
\* executeFunction raised the delegation signal, rethrows every other error
\* as it is, and otherwise returns the success, result, stdout and error of
\* the outcome of executeFunction; a delegation is never returned.
C28_DirectExecutionReroutes ==
  (tool # NoValue /\ tool.pc = "Done") =>
    /\ IsSkipSignal(tool.outcome) <=> IsDelegationSignal(outcome)
    /\ (outcome.kind = "thrown" /\ ~IsDelegationSignal(outcome)) =>
         tool.outcome = Rejected(outcome.error)
    /\ outcome.kind = "returned" =>
         /\ tool.outcome.kind = "returned"
         /\ tool.outcome.value.success = outcome.value.success
         /\ tool.outcome.value.output.result = outcome.value.output.result
         /\ tool.outcome.value.output.stdout = outcome.value.output.stdout
         /\ tool.outcome.value.error = EnvelopeError(outcome.value)
    /\ IsDelegationSignal(outcome) => tool.outcome.kind # "returned"

\* the gate of executeFunction asked for the HTTP route and the tool passed
\* the request on
C28_Witness ==
  /\ tool # NoValue
  /\ tool.pc = "Done"
  /\ vmContext = NoValue
  /\ IsDelegationSignal(outcome)
  /\ IsSkipSignal(tool.outcome)

(***************************************************************************)
(* The command-line program                                                *)
(***************************************************************************)
\* the start steps in the order the documentation gives them
DocumentedOrder ==
  <<"config", "pull", "network", "postgres", "wait-postgres", "migrations", "realtime",
    "app", "browser">>

Documented(step) == \E i \in DOMAIN DocumentedOrder : DocumentedOrder[i] = step

Position(step) == CHOOSE i \in DOMAIN DocumentedOrder : DocumentedOrder[i] = step

\* the command that runs, or ran last
Running(name) == commandsRun > 0 /\ command.name = name

Ended(name) == Running(name) /\ cpc = "Idle"

HasStep(step, ok) == \E i \in DOMAIN steps : steps[i] = [step |-> step, ok |-> ok]

Tried(step) == HasStep(step, TRUE) \/ HasStep(step, FALSE)

\* the steps of a start come in the documented order, pull and browser only
\* when asked for, the app only after the database answered and the
\* migration succeeded
StartInOrder ==
  /\ \A i, j \in DOMAIN steps :
       i < j /\ Documented(steps[i].step) /\ Documented(steps[j].step)
         => Position(steps[i].step) < Position(steps[j].step)
  /\ \A i \in DOMAIN steps : i < Len(steps) => steps[i].ok \/ steps[i].step = "wait-app"
  /\ Tried("pull") => command.options.pull
  /\ Tried("network") /\ command.options.pull => HasStep("pull", TRUE)
  /\ Tried("app") => /\ HasStep("config", TRUE)
                     /\ HasStep("network", TRUE)
                     /\ HasStep("postgres", TRUE)
                     /\ HasStep("wait-postgres", TRUE)
                     /\ HasStep("migrations", TRUE)
                     /\ HasStep("realtime", TRUE)
  /\ Tried("browser") => command.options.open /\ HasStep("wait-app", TRUE)
  /\ Ended("start") /\ command.options.open /\ HasStep("wait-app", TRUE) => Tried("browser")

\* the docker check and the documented steps
ExitingSteps == {"docker"} \cup {DocumentedOrder[i] : i \in DOMAIN DocumentedOrder}

\* the steps whose failure ends the command with exit code 1
FailureExits(among) ==
  \A i \in DOMAIN steps :
    steps[i].step \in among /\ ~steps[i].ok
      => i = Len(steps) /\ cpc = "Idle" /\ exitCode = 1

\* C24 as stated: a start runs its steps in the documented order, pull and
\* browser only when requested, the browser only when the app answered, and a
\* failure of any step ends the command with exit code 1.
C24_StartOrderAnyFailureExits ==
  Running("start") =>
    /\ StartInOrder
    /\ FailureExits(ExitingSteps)

\* C24: a start runs its steps in the documented order, pull and browser only
\* when requested, the browser only when the app answered; a failure of the
\* docker check or of any step up to the start of the app ends the command
\* with exit code 1, while a browser that cannot be opened ends it with 0.
C24_StartOrderFailureExits ==
  Running("start") =>
    /\ StartInOrder
    /\ FailureExits(ExitingSteps \ {"browser"})
    /\ HasStep("browser", FALSE) => cpc = "Idle" /\ exitCode = 0

\* a start with pull and browser requested where every step succeeded
C24_Witness ==
  /\ Ended("start")
  /\ exitCode = 0
  /\ command.options.pull
  /\ \A i \in DOMAIN DocumentedOrder : HasStep(DocumentedOrder[i], TRUE)
  /\ browser = config.port

\* the machine is as the command found it
AsBefore ==
  /\ configFile = command.before.configFile
  /\ dataDir = command.before.dataDir
  /\ containers = command.before.containers

\* C25: reset without --yes stops no container and leaves the data directory
\* and the configuration file as they are; with --yes it stops Sim first when
\* it runs, and then removes the data directory and the configuration file.
C25_ResetNeedsYes ==
  Running("reset") =>
    /\ ~command.yes => AsBefore /\ steps = <<>>
    /\ command.yes =>
         /\ ~Tried("remove") =>
              configFile = command.before.configFile /\ dataDir = command.before.dataDir
         /\ isRunning(command.before.containers) /\ cpc # "reset" =>
              /\ steps[1] = [step |-> "stop", ok |-> TRUE]
              /\ ~isRunning(containers)
         /\ Tried("remove") => steps[Len(steps)].step = "remove" /\ cpc = "Idle"
         /\ cpc = "Idle" => Tried("remove") /\ (exitCode = 0 <=> HasStep("remove", TRUE))
         /\ HasStep("remove", TRUE) => ~dataDir /\ configFile = NoValue

\* a reset --yes of a running Sim that has ended
C25_Witness ==
  /\ Ended("reset")
  /\ command.yes
  /\ isRunning(command.before.containers)
  /\ command.before.dataDir
  /\ command.before.configFile = SavedConfig
  /\ exitCode = 0
  /\ ~dataDir
  /\ configFile = NoValue
  /\ containers = <<>>

\* C26: when upgrade is run while Sim runs, Sim runs again on the same port
\* once the command has ended, and the stored configuration is the same.
C26_UpgradeRestarts ==
  Ended("upgrade") /\ isRunning(command.before.containers) =>
    /\ isRunning(containers)
    /\ containers[APP_CONTAINER] = command.before.containers[APP_CONTAINER]
    /\ configFile = command.before.configFile

\* a file that holds a configuration
Valid(file) == file \notin {NoValue, Garbage}

\* the commands C27 is about
ConfigCommands == {"start", "status", "config", "upgrade"}

\* C27: once a valid configuration file exists, a step of start, status, config
\* or upgrade leaves the four secrets, disableAuth and createdAt as stored, and
\* changes the port only when the command line gave one; secrets are drawn
\* only when the file is missing or cannot be parsed.
C27_SecretsOnce ==
  [][/\ commandsRun' > 0 /\ command'.name \in ConfigCommands /\ Valid(configFile) =>
          /\ Valid(configFile')
          /\ [configFile' EXCEPT !.port = ""] = [configFile EXCEPT !.port = ""]
          /\ configFile'.port # configFile.port => command'.port # ""
     /\ secretsMade' # secretsMade => ~Valid(configFile)]_vars

(***************************************************************************)
(* The profiler endpoint                                                   *)
(***************************************************************************)
\* the requests whose key check failed
Refused == {i \in DOMAIN requests : ~requests[i].authorized}

\* C29: a GET or POST whose key check fails is answered with 401 and has no
\* effect: it records no sample, does not reset the buffer, and starts no
\* tracking, snapshot or gc.
C29_RefusedHasNoEffect ==
  /\ \A i \in Refused :
       /\ requests[i].pc = "Done"
       /\ requests[i].response.status = 401
  /\ \A k \in DOMAIN effects : effects[k].request \notin Refused

\* refused requests of both methods among requests that had effects
C29_Witness ==
  /\ \E i, j \in Refused : requests[i].method = "GET" /\ requests[j].method = "POST"
  /\ effects # <<>>
  /\ memorySamples # <<>>

\* the last n elements of a sequence
LastOf(seq, n) == SubSeq(seq, Len(seq) - n + 1, Len(seq))

Min(a, b) == IF a < b THEN a ELSE b

\* C30: the buffer holds the samples pushed since the last reset, in the order
\* they were pushed, cut to the newest MAX_SAMPLES; only a GET and a POST reset
\* change it, and a GET reports growth only from two samples on.
C30_BufferBounded ==
  /\ Len(memorySamples) <= MAX_SAMPLES
  /\ memorySamples = LastOf(recorded, Min(Len(recorded), MAX_SAMPLES))
  /\ \A k \in 1..(Len(memorySamples) - 1) :
       memorySamples[k].timestamp <= memorySamples[k + 1].timestamp
  /\ \A i \in DOMAIN requests :
       requests[i].pc = "Done" /\ requests[i].method = "GET" /\ requests[i].authorized =>
         /\ requests[i].response.held >= 1
         /\ requests[i].response.growth # Null <=> requests[i].response.held >= 2
         /\ requests[i].response.growth # Null =>
              requests[i].response.growth.samples = requests[i].response.held

\* the buffer is full after more pushes than it holds, and a track request ran
C30_Witness ==
  /\ Len(memorySamples) = MAX_SAMPLES
  /\ Len(recorded) > MAX_SAMPLES
  /\ memorySamples[1] # recorded[1]
  /\ \E k \in DOMAIN effects : effects[k].effect = "track"

====
